---- MODULE Spec2Model ----
(***************************************************************************)
(* Model of the NetWatch agent (agent-rust).                               *)
(*                                                                         *)
(* The specifications of this module:                                      *)
(*                                                                         *)
(*   Spec       one batching producer (ActivityTracker or Keylogger, the   *)
(*              variable svc says which) with its start() callers, its     *)
(*              background tasks, its timer flush and its stop().          *)
(*   SpecLife   Spec with stop() called again after it has returned.       *)
(*   SpecAgent  run_agent of main.rs: the initial connect, the auth-success*)
(*              handler tasks, the supervisor loop and the shutdown, with  *)
(*              every monitoring service reduced to its running flag, its  *)
(*              task handle and its live background tasks.                 *)
(*   SpecMain   SpecAgent together with main(): the tray event loop ends   *)
(*              on Exit and main() returns, which ends the process.        *)
(*   SpecCmd    the command handler of commands.rs under run_agent's       *)
(*              connect, handler registration and auth-success.            *)
(*   SpecFile   the file-transfer and list-directory handlers of           *)
(*              file_transfer.rs, each on one request.                     *)
(*   SpecCfg    Config::update_from_server of config.rs.                   *)
(*   SpecTerm   the terminal service of terminal.rs: the tasks of the      *)
(*              start-terminal events, stop_session and stop_all.          *)
(*   SpecProd   one periodic producer (process monitor, periodic screen    *)
(*              capture or clipboard): start(), its loop task, stop().     *)
(*   SpecKeys   the running keylogger: key presses, process_key_event and  *)
(*              the flush timer, up to the timer's first batch.            *)
(*   SpecKl     the keylogger over start(), stop() and start() again, with *)
(*              its listener threads and key processing tasks.             *)
(*   SpecSer    a Config written as JSON and parsed back.                  *)
(*   SpecPw     constant_time_compare and verify_password of password.rs.  *)
(*   SpecStream the screen stream of screen_capture.rs under the handler   *)
(*              tasks of the start and stop stream events.                 *)
(*   SpecClock  the activity tracker's entries under the readings of the   *)
(*              system clock: track_active_window, commit_current_activity.*)
(*   SpecClip   the clipboard monitor of clipboard.rs: its loop task,      *)
(*              check_clipboard, the texts the user copies, stop(), start().*)
(*   SpecLock   the write and read guards of a batching service, taken and *)
(*              released by its tasks and by stop() in the order of the    *)
(*              code.                                                      *)
(*                                                                         *)
(* The socket client (socket/client.rs) is not part of the sources; what   *)
(* the model needs of it (connect, is_connected, send, the auth-success    *)
(* callback) follows the specification text, sections 4.1 and 4.2.         *)
(***************************************************************************)
EXTENDS Naturals, Integers, Sequences, FiniteSets, TLC

\* ------------------------------------------------------------------ bounds
\* activity entries created in one behaviour
MaxRecords == 5
\* keys pressed in one behaviour
MaxKeys == 1
\* records the services of SpecAgent produce that are counted
MaxProduced == 1
\* command events received in one behaviour
MaxCommands == 2
\* file-transfer and list-directory events received in one behaviour
MaxRequests == 2
\* start-terminal events received in one behaviour
MaxStarts == 2
\* calls of stop() on the batching producer in one behaviour of SpecLife
MaxStops == 2
\* turns of the loop of a periodic producer in one behaviour
MaxCycles == 3
\* keys pressed in one behaviour of SpecKeys
MaxKeyEvents == 11
\* keys pressed in one behaviour of SpecKl
MaxPresses == 2
\* length of the strings given to constant_time_compare
MaxLen == 3
\* screen-stream events received in one behaviour
MaxStreamEvents == 3
\* readings of the system clock in one behaviour of SpecClock
MaxReadings == 4
\* texts the user copies to the clipboard in one behaviour of SpecClip
MaxCopies == 2

\* --------------------------------------------------------- program constants
\* activity_tracker.rs:226 and :266, "duration > 1000"
MinDurationMs == 1000
\* keylogger.rs:43, buffer_size
KeystrokeBufferSize == 100
\* config.rs:82-104, the default_* functions
DefaultScreenshotInterval == 5000
DefaultActivityLogInterval == 10000
DefaultKeystrokeBufferSize == 100
DefaultHeartbeatInterval == 10000
DefaultProcessInterval == 10000
DefaultClipboardInterval == 2000
\* Duration::from_secs(10) of the process monitor, in milliseconds
ProcessPollMs == 10000
\* Duration::from_secs(2) of the clipboard monitor, in milliseconds
ClipboardPollMs == 2000
\* keylogger.rs:190, "buffer.read().await.len() >= 10"
FlushThreshold == 10
\* password.rs:16, HASH_LENGTH
HASH_LENGTH == 32
\* screen_capture.rs:38-39, stream_quality and stream_fps after new()
DefaultStreamQuality == 60
DefaultStreamFps == 5

\* The callers of start(): the handler task of the first auth-success event
\* and the handler task of a later one (a re-authentication).
Starters == {1, 2}
\* get_active_window_info is read against the current activity or stroke:
\* the same (application, window title) pair or another one.  With two or
\* more windows on the machine either answer is possible at every reading.
SameWindow == BOOLEAN
\* readings of now - start_time, one on each side of the threshold
\* src/agent-rust/src/services/activity_tracker.rs:223-226 (ActivityTracker::track_active_window
\*   (duration = now - start_time))
Durations == {MinDurationMs, MinDurationMs + 1}
\* rdev keys: a printable one and a modifier
\* src/agent-rust/src/services/keylogger.rs:240-343 (Keylogger::key_to_string (rdev::Key))
Keys == {"KeyA", "ShiftLeft"}

\* src/agent-rust/src/services/activity_tracker.rs:102-110 (struct ActivityTracker)
ActivityTrackerSvc == "activity_tracker"
\* src/agent-rust/src/services/keylogger.rs:25-33 (struct Keylogger)
KeyloggerSvc == "keylogger"
BatchingServices == {ActivityTrackerSvc, KeyloggerSvc}

\* the services the auth-success handler starts, in its order (main.rs:245-250)
Services == <<"screen_capture", ActivityTrackerSvc, KeyloggerSvc, "clipboard",
              "process_monitor", "blocking_service">>
MonitoringServices == {Services[i] : i \in 1..Len(Services)}
\* the stop() calls of the shutdown, in their order (main.rs:330-336)
ShutdownOrder == <<"screen_capture", ActivityTrackerSvc, KeyloggerSvc, "clipboard",
                   "process_monitor", "terminal", "blocking_service">>

\* the ids of the command events
\* src/agent-rust/src/services/commands.rs:42-43 (Commands::execute_command (data.id of
\*   CommandPayload))
CmdIds == 1..MaxCommands

\* the transfer ids of the file-transfer events; for a list-directory event
\* the number stands for its path
\* src/agent-rust/src/services/file_transfer.rs:19-27 (TransferInfo.transfer_id
\*   (ListDirectoryPayload.path for a listing))
ReqIds == 1..MaxRequests

\* the tasks of the start-terminal events, and the session ids the server
\* may put in them
\* src/agent-rust/src/services/terminal.rs:45-52 (register_handlers (tokio::spawn per
\*   start-terminal event))
TermTasks == 1..MaxStarts
\* src/agent-rust/src/services/terminal.rs:16-20 (TerminalSession.session_id)
SessionIds == {"s1", "s2"}

\* Option<T>: None is the empty sequence, Some(x) is <<x>>
\* src/agent-rust/src/services/activity_tracker.rs:118-122 (ActivityTracker::new (Option fields
\*   start as None))
None == <<>>
\* src/agent-rust/src/services/activity_tracker.rs:247-252 (Some(CurrentActivity))
Some(x) == <<x>>

\* owners of a tokio RwLock write guard
\* src/agent-rust/src/services/activity_tracker.rs:104-109 (tokio::sync::RwLock fields (no guard
\*   held))
Free == <<"free", 0>>
\* src/agent-rust/src/services/activity_tracker.rs:186-204 (ActivityTracker::stop (as holder of a
\*   guard))
Stopper == <<"stop", 0>>
\* src/agent-rust/src/services/activity_tracker.rs:140-154 (ActivityTracker::start (track task,
\*   as holder of a guard))
TrackTask(h) == <<"track", h>>
\* src/agent-rust/src/services/activity_tracker.rs:164-180 (ActivityTracker::start (flush task,
\*   as holder of a guard))
FlushTask(h) == <<"flush", h>>

VARIABLES
    \* ---- the batching producer (Spec)
    svc,            \* which batching service this behaviour is about
    connected,      \* the socket is connected (socket.send succeeds)
    is_running,     \* Arc<RwLock<bool>>
    current,        \* current_activity / current_stroke: Option
    buffer,         \* activity_buffer / buffer: Vec
    curLock,        \* owner of the write guard of current
    bufLock,        \* owner of the write guard of buffer
    startPc,        \* position of each start() call
    taskPc,         \* track task (ActivityTracker) / key processing task (Keylogger)
    flushPc,        \* position of each flush timer task
    flushBatch,     \* the drained entries a flush timer task is sending
    stopPc,         \* position of stop()
    stopBatch,      \* the drained entries stop() is sending
    track_handle,   \* Option<JoinHandle>: 0 is None, h the task spawned by start h
    flush_handle,
    sent,           \* the entries handed to socket.send, in order
    nextId,         \* entries created so far + 1 / key presses so far + 1
    listeners,      \* live rdev listener threads (Keylogger)
    nBatches,       \* the number of batches handed to socket.send
    queue,          \* mpsc channel of each listener -> processing task
    \* ---- history of the producer, read by the properties only
    sendErrs,       \* sends that returned Err
    stopDrains,     \* drains of the buffer made by stop()
    stopMidCycle,   \* stop() was called while a flush timer task was mid-cycle
    \* ---- run_agent (SpecAgent)
    mainPc,         \* position of run_agent
    stopIdx,        \* the stop() call of the shutdown run_agent is at
    exit_flag,      \* Arc<AtomicBool>, set by the tray
    is_connected,   \* socket.is_connected()
    handlers_registered, \* on_auth_success has its callback
    is_monitoring,  \* Arc<RwLock<bool>> of run_agent
    authPc,         \* position of each task spawned by the auth-success callback
    authIdx,        \* the service whose start() that task is at
    svcRunning,     \* is_running / is_capturing of each monitoring service
    handle,         \* its stored JoinHandle: None or Some(<<>>)
    tasks,          \* the number of its task sets spawned and not aborted
    produced,       \* records produced by the services, sent or buffered
    \* ---- history of run_agent, read by the properties only
    auth_received,  \* an auth-success event has been received
    lastConnect,    \* result of the latest connect(): "none", "ok", "err"
    \* ---- main() and the tray (SpecAgent)
    process,        \* "running", or "exited" once main() has returned
    status,         \* the StatusUpdate run_agent sent last
    \* ---- the command handler (SpecCmd)
    cmd,            \* the task spawned for each command event
    responses,      \* the send_command_response calls made, by command id
    osActions,      \* the commands whose OS action has been carried out
    \* ---- the file transfer handlers (SpecFile)
    req,            \* the task spawned for each file-transfer / list-directory event
    outbox,         \* the messages each task handed to the socket, in order
    active_transfers, \* keys of the HashMap of TransferInfo
    \* ---- the terminal service (SpecTerm)
    termPc,         \* position of the task of each start-terminal event
    termId,         \* the session_id of that event
    child,          \* the shell process of that task: "none", "alive", "killed"
    sessions,       \* HashMap<String, TerminalSession>: session id -> the
                    \* task whose child the stored session owns, 0 for no entry
    stopAllPc,      \* position of stop_all()
    \* ---- repeated stop() of the batching producer (SpecLife)
    stopOnStopped,  \* the stop() in progress was called on a stopped service
    \* ---- the configuration (SpecCfg)
    config,         \* the Config
    server_config,  \* the ServerConfig of the latest update_from_server
    cfgPrev,        \* the Config before that update
    \* ---- a periodic producer (SpecProd)
    pSvc,           \* which periodic producer this behaviour is about
    pRunning,       \* is_running / is_capturing
    pHandle,        \* monitor_handle / capture_handle: Option<JoinHandle>
    pCall,          \* position of the caller of start() and stop()
    pPc,            \* position of the loop task
    pSleep,         \* the duration of the sleep the task is in, 0 for none
    pCycles,        \* turns of the loop made so far
    pLast,          \* what the latest turn met
    pSent,          \* successful sends
    \* ---- the keylogger over its restarts (SpecKl)
    kRunning,       \* is_running
    kCall,          \* position of the caller of start() and stop()
    kStarts,        \* start() calls that have spawned
    kListeners,     \* live listener threads
    kProc,          \* position of each key processing task
    kQueue,         \* the key presses in each mpsc channel
    kFlush,         \* position of each flush task
    kFlushHandle,   \* flush_handle: 0 is None, g the flush task of start g
    kPressed,       \* keys pressed so far
    kBuf,           \* the key presses in current_stroke and buffer
    kSent,          \* the key presses handed to the socket
    \* ---- history of the keylogger, read by the properties only
    kAtStop,        \* the listener threads alive when the latest stop() returned
    kSeenKey,       \* those of them that have since seen a key press
    \* ---- Config as JSON (SpecSer)
    json,           \* Option: the JSON object to_string gave
    parsed,         \* Option: the result of from_str on it
    \* ---- utils/password.rs (SpecPw)
    pwCall,         \* the function that is called
    pwA,            \* its first argument: a (compare) / password (verify)
    pwB,            \* its second argument: b (compare) / hash (verify)
    pwRes,          \* Option: what it returned
    \* ---- the screen stream (SpecStream)
    is_streaming,   \* Arc<RwLock<bool>>
    stream_quality, \* Arc<RwLock<u32>>
    stream_fps,     \* Arc<RwLock<u32>>
    stream_handle,  \* Option<JoinHandle>: 0 is None, t the stream task t
    sEvents,        \* the stream events received, in their order
    sPayload,       \* the (quality, fps) of each event
    sPc,            \* position of the handler task of each event
    sTask,          \* position of each stream task
    \* ---- the activity tracker's clock (SpecClock)
    overflow_checks, \* the build's overflow-checks: a u64 overflow panics, or wraps
    current_activity, \* Option<CurrentActivity>, with its start_time
    activity_buffer, \* Vec<ActivityLogEntry>, with the times of each entry
    ckReads,        \* readings of the clock made so far
    ckPanicked,     \* a subtraction has panicked
    \* ---- the clipboard monitor (SpecClip)
    os_clipboard,   \* the text on the system clipboard
    last_content,   \* Arc<RwLock<String>>
    cbRunning,      \* is_running of the Clipboard
    monitor_handle, \* Option<JoinHandle>: 0 is None, h the task spawned by start h
    cbStartPc,      \* position of each start() call
    cbStopPc,       \* position of stop()
    cbPc,           \* position of each monitor task
    cbRead,         \* the text each monitor task got from get_text
    cbCopies,       \* texts copied by the user so far
    \* ---- history of the clipboard monitor, read by the properties only
    cbAttempts,     \* send attempts of the text on the clipboard since it was copied
    \* ---- the guards of a batching service (SpecLock)
    lkSvc,          \* which batching service this behaviour is about
    lkHeld,         \* the guards held on each RwLock: who holds it, for write or read
    lkPath,         \* the acquires and releases of the call each task is in
    lkPos           \* the next of them: 0 when the task is in no call

batchVars == <<svc, connected, is_running, current, buffer, curLock, bufLock,
               startPc, taskPc, flushPc, flushBatch, stopPc, stopBatch,
               track_handle, flush_handle, sent, nextId, listeners, queue, nBatches,
               sendErrs, stopDrains, stopMidCycle>>

agentVars == <<mainPc, stopIdx, exit_flag, is_connected, handlers_registered,
               is_monitoring, authPc, authIdx, svcRunning, handle, tasks, produced,
               auth_received, lastConnect, process, status>>

cmdVars == <<cmd, responses, osActions>>

\* the variables of the specifications other than Spec and SpecAgent
fileVars == <<req, outbox, active_transfers>>

termVars == <<termPc, termId, child, sessions, stopAllPc>>

lifeVars == <<stopOnStopped>>

cfgVars == <<config, server_config, cfgPrev>>

prodVars == <<pSvc, pRunning, pHandle, pCall, pPc, pSleep, pCycles, pLast, pSent>>

\* the variables of the specifications from SpecProd on
klVars == <<kRunning, kCall, kStarts, kListeners, kProc, kQueue, kFlush, kFlushHandle,
           kPressed, kBuf, kSent, kAtStop, kSeenKey>>

serVars == <<json, parsed>>

pwVars == <<pwCall, pwA, pwB, pwRes>>

streamVars == <<is_streaming, stream_quality, stream_fps, stream_handle,
               sEvents, sPayload, sPc, sTask>>

clockVars == <<overflow_checks, current_activity, activity_buffer, ckReads, ckPanicked>>

\* the variables of the specifications after SpecStream
clipVars == <<os_clipboard, last_content, cbRunning, monitor_handle, cbStartPc, cbStopPc,
              cbPc, cbRead, cbCopies, cbAttempts>>

lockVars == <<lkSvc, lkHeld, lkPath, lkPos>>

tailVars == <<clockVars, clipVars, lockVars>>

moreVars == <<prodVars, klVars, serVars, pwVars, streamVars, tailVars>>

\* what the actions of one of these specifications leave alone
notProd == <<klVars, serVars, pwVars, streamVars, tailVars>>
notKl == <<prodVars, serVars, pwVars, streamVars, tailVars>>
notSer == <<prodVars, klVars, pwVars, streamVars, tailVars>>
notPw == <<prodVars, klVars, serVars, streamVars, tailVars>>
notStream == <<prodVars, klVars, serVars, pwVars, tailVars>>
notClock == <<prodVars, klVars, serVars, pwVars, streamVars, clipVars, lockVars>>
notClip == <<prodVars, klVars, serVars, pwVars, streamVars, lockVars>>
notLock == <<prodVars, klVars, serVars, pwVars, streamVars, clockVars, clipVars>>

\* the variables of the specifications before SpecProd
oldVars == <<batchVars, agentVars, cmdVars, fileVars, termVars, lifeVars, cfgVars>>

extVars == <<cmdVars, fileVars, termVars, lifeVars, cfgVars, moreVars>>

vars == <<batchVars, agentVars, extVars>>

\* ------------------------------------------------------------------ helpers
\* src/agent-rust/src/services/activity_tracker.rs:102-110 (struct ActivityTracker)
IsAT == svc = ActivityTrackerSvc
\* src/agent-rust/src/services/keylogger.rs:25-33 (struct Keylogger)
IsKL == svc = KeyloggerSvc

\* what tells two buffered records apart: an entry's id, a stroke's first
\* timestamp and the processing task that created it
\* src/agent-rust/src/services/activity_tracker.rs:228-235 (ActivityLogEntry built by
\*   track_active_window / KeystrokeBuffer built by process_key_event)
RecId(r) == IF IsAT THEN <<r.id, 0>> ELSE <<r.ts, r.by>>
\* src/agent-rust/src/services/activity_tracker.rs:228-235 (ActivityLogEntry / KeystrokeBuffer)
RecIds(s) == {RecId(s[i]) : i \in 1..Len(s)}

\* ------------------------------------------------------------------- Init
\* the producer after new() (activity_tracker.rs:113-124, keylogger.rs:37-47)
BatchStart ==
    /\ is_running = FALSE
    /\ current = None
    /\ buffer = <<>>
    /\ curLock = Free
    /\ bufLock = Free
    /\ startPc = [h \in Starters |-> "idle"]
    /\ taskPc = [h \in Starters |-> "none"]
    /\ flushPc = [h \in Starters |-> "none"]
    /\ flushBatch = [h \in Starters |-> <<>>]
    /\ stopPc = "idle"
    /\ stopBatch = <<>>
    /\ track_handle = 0
    /\ flush_handle = 0
    /\ sent = <<>>
    /\ nBatches = 0
    /\ sendErrs = 0
    /\ stopDrains = 0
    /\ stopMidCycle = FALSE
    /\ nextId = 1
    /\ listeners = {}
    /\ queue = [h \in Starters |-> <<>>]

\* the producer of Spec at rest, as SpecAgent keeps it
BatchIdle ==
    /\ svc = ActivityTrackerSvc
    /\ connected = FALSE
    /\ BatchStart

InitBatch ==
    /\ svc \in BatchingServices
    /\ connected \in BOOLEAN
    /\ BatchStart

\* ------------------------------------------------- the socket (spec, 4.1)
\* The transport opens or closes; send succeeds only while it is open.
SocketUp ==
    /\ ~connected
    /\ connected' = TRUE
    /\ UNCHANGED <<agentVars, extVars, svc, is_running, current, buffer, curLock, bufLock, startPc,
                   taskPc, flushPc, flushBatch, stopPc, stopBatch,
                   track_handle, flush_handle, sent, nextId, listeners, queue, nBatches,
                   sendErrs, stopDrains, stopMidCycle>>

SocketDown ==
    /\ connected
    /\ connected' = FALSE
    /\ UNCHANGED <<agentVars, extVars, svc, is_running, current, buffer, curLock, bufLock, startPc,
                   taskPc, flushPc, flushBatch, stopPc, stopBatch,
                   track_handle, flush_handle, sent, nextId, listeners, queue, nBatches,
                   sendErrs, stopDrains, stopMidCycle>>

\* socket.send_activity_logs / send_keystrokes: Ok while connected, Err otherwise
SendOk == connected

\* ------------------------------------------------------------- start()
\* "if *self.is_running.read().await { return; }"
StartCheck(h) ==
    /\ startPc[h] = "idle"
    /\ \A g \in Starters : g < h => startPc[g] # "idle"
    /\ startPc' = [startPc EXCEPT ![h] = IF is_running THEN "returned" ELSE "set"]
    /\ UNCHANGED <<agentVars, extVars, svc, connected, is_running, current, buffer, curLock, bufLock,
                   taskPc, flushPc, flushBatch, stopPc, stopBatch,
                   track_handle, flush_handle, sent, nextId, listeners, queue, nBatches,
                   sendErrs, stopDrains, stopMidCycle>>

\* "*self.is_running.write().await = true;"
StartSet(h) ==
    /\ startPc[h] = "set"
    /\ is_running' = TRUE
    /\ startPc' = [startPc EXCEPT ![h] = "spawn"]
    /\ UNCHANGED <<agentVars, extVars, svc, connected, current, buffer, curLock, bufLock,
                   taskPc, flushPc, flushBatch, stopPc, stopBatch,
                   track_handle, flush_handle, sent, nextId, listeners, queue, nBatches,
                   sendErrs, stopDrains, stopMidCycle>>

\* The top of a task's loop, "if !*is_running.read().await { break; }".
\* The read is taken together with the step that leads to it: it touches
\* nothing that step touches, so every interleaving of the two is kept.
LoopTop(running, go) == IF running THEN go ELSE "done"
TaskLoopTop == LoopTop(is_running, IF IsAT THEN "track" ELSE "recv")
FlushLoopTop == LoopTop(is_running, "sleep")

\* The spawns and the stores of the handles.  ActivityTracker: the track
\* task and the flush task.  Keylogger: the listener thread with a fresh
\* channel, the key processing task (its handle is not kept) and the flush
\* task.  Each task starts at the top of its loop, where it reads the flag.
StartSpawn(h) ==
    /\ startPc[h] = "spawn"
    /\ taskPc' = [taskPc EXCEPT ![h] = TaskLoopTop]
    /\ flushPc' = [flushPc EXCEPT ![h] = FlushLoopTop]
    /\ track_handle' = IF IsAT THEN h ELSE track_handle
    /\ flush_handle' = h
    /\ listeners' = IF IsKL THEN listeners \cup {h} ELSE listeners
    /\ startPc' = [startPc EXCEPT ![h] = "returned"]
    /\ UNCHANGED <<agentVars, extVars, svc, connected, is_running, current, buffer, curLock, bufLock,
                   flushBatch, stopPc, stopBatch, sent, nextId, queue, nBatches,
                   sendErrs, stopDrains, stopMidCycle>>

\* ------------------------------------------- ActivityTracker: track task
\* an ActivityLogEntry; id stands for its (start_time, end_time)
\* src/agent-rust/src/services/activity_tracker.rs:228-235 (ActivityLogEntry)
Entry(id) == [id |-> id]
\* a CurrentActivity; its start_time is read through the duration
\* src/agent-rust/src/services/activity_tracker.rs:247-252 (CurrentActivity)
Activity == [tracking |-> TRUE]

\* "if duration > 1000"
LongEnough(d) == d > MinDurationMs

\* track_active_window: same is the comparison with the window read, d the reading of
\* now - current.start_time.  The write guard of current_activity is held
\* while the task waits for the write guard of activity_buffer.
TrackWindow(h) ==
    /\ IsAT
    /\ taskPc[h] = "track"
    /\ curLock = Free
    /\ \E same \in SameWindow, d \in Durations :
         IF current # None /\ same
         THEN /\ taskPc' = [taskPc EXCEPT ![h] = TaskLoopTop]
              /\ UNCHANGED <<current, buffer, curLock, nextId>>
         ELSE IF current # None /\ LongEnough(d)
         THEN /\ nextId <= MaxRecords
              /\ IF bufLock = Free
                 THEN /\ buffer' = Append(buffer, Entry(nextId))
                      /\ nextId' = nextId + 1
                      /\ current' = Some(Activity)
                      /\ taskPc' = [taskPc EXCEPT ![h] = TaskLoopTop]
                      /\ UNCHANGED curLock
                 ELSE /\ curLock' = TrackTask(h)
                      /\ taskPc' = [taskPc EXCEPT ![h] = "push"]
                      /\ UNCHANGED <<current, buffer, nextId>>
         ELSE /\ current' = Some(Activity)
              /\ taskPc' = [taskPc EXCEPT ![h] = TaskLoopTop]
              /\ UNCHANGED <<buffer, curLock, nextId>>
    /\ UNCHANGED <<agentVars, extVars, svc, connected, is_running, bufLock, startPc, flushPc,
                   flushBatch, stopPc, stopBatch, track_handle, flush_handle,
                   sent, listeners, queue, nBatches,
                   sendErrs, stopDrains, stopMidCycle>>

\* "activity_buffer.write().await.push(entry)" once the buffer is free
TrackPush(h) ==
    /\ IsAT
    /\ taskPc[h] = "push"
    /\ bufLock = Free
    /\ buffer' = Append(buffer, Entry(nextId))
    /\ nextId' = nextId + 1
    /\ current' = Some(Activity)
    /\ curLock' = Free
    /\ taskPc' = [taskPc EXCEPT ![h] = TaskLoopTop]
    /\ UNCHANGED <<agentVars, extVars, svc, connected, is_running, bufLock, startPc, flushPc,
                   flushBatch, stopPc, stopBatch, track_handle, flush_handle,
                   sent, listeners, queue, nBatches,
                   sendErrs, stopDrains, stopMidCycle>>

\* ----------------------------------------------------------- flush_buffer
\* "buffer.drain(..).collect()": what the Vec holds afterwards, and what
\* the caller gets
\* (a bug: the entries are copied out and the Vec keeps them)
DrainRemainderKept(buf) == buf
DrainRemainder(buf) == <<>>
\* (a bug: the entries are taken from the back, newest first)
RECURSIVE DrainedEntriesReversed(_)
DrainedEntriesReversed(buf) ==
    IF buf = <<>> THEN <<>> ELSE Append(DrainedEntriesReversed(Tail(buf)), Head(buf))
DrainedEntries(buf) == buf

\* "if let Err(e) = socket.send_...(..).await { warn!(..) } else { debug!(..) }":
\* the buffer after the send returned ok or not
\* (a bug: a batch whose send failed is put back in front of the buffer)
BufferAfterSendRequeue(buf, batch, ok) == IF ok THEN buf ELSE batch \o buf
BufferAfterSend(buf, batch, ok) == buf

\* ActivityTracker::flush_buffer binds the write guard to a local that lives
\* to the end of the function, the send included; Keylogger::flush_buffer
\* takes the guard in the drain statement only.
HoldsBufferAcrossSend(s) == s = ActivityTrackerSvc

\* "if let Some(stroke) = current.take() { if !stroke.keys.is_empty() { push } }"
WithCurrentStroke(cur, buf) ==
    IF cur # None /\ cur[1].keys # <<>> THEN Append(buf, cur[1]) ELSE buf

\* Keylogger::flush_buffer, first block: the current stroke joins the buffer
FlushTake(h) ==
    /\ IsKL
    /\ flushPc[h] = "sleep"
    /\ buffer' = WithCurrentStroke(current, buffer)
    /\ current' = None
    /\ flushPc' = [flushPc EXCEPT ![h] = "drain"]
    /\ UNCHANGED <<agentVars, extVars, svc, connected, is_running, curLock, bufLock,
                   startPc, taskPc, flushBatch, stopPc, stopBatch,
                   track_handle, flush_handle, sent, nextId, listeners, queue, nBatches,
                   sendErrs, stopDrains, stopMidCycle>>

\* the timer fired: take the buffer's write guard, return if it is empty,
\* else drain it and hand the entries to the socket as one batch
FlushDrain(h) ==
    /\ flushPc[h] = IF IsAT THEN "sleep" ELSE "drain"
    /\ bufLock = Free
    /\ IF buffer = <<>>
       THEN /\ flushPc' = [flushPc EXCEPT ![h] = FlushLoopTop]
            /\ UNCHANGED <<buffer, bufLock, flushBatch, sent, nBatches>>
       ELSE /\ flushBatch' = [flushBatch EXCEPT ![h] = DrainedEntries(buffer)]
            /\ buffer' = DrainRemainder(buffer)
            /\ sent' = sent \o DrainedEntries(buffer)
            /\ nBatches' = nBatches + 1
            /\ bufLock' = IF HoldsBufferAcrossSend(svc) THEN FlushTask(h) ELSE Free
            /\ flushPc' = [flushPc EXCEPT ![h] = "sending"]
    /\ UNCHANGED <<agentVars, extVars, svc, connected, is_running, current, curLock,
                   startPc, taskPc, stopPc, stopBatch,
                   track_handle, flush_handle, nextId, listeners, queue,
                   sendErrs, stopDrains, stopMidCycle>>

\* the send returned, Ok or Err: log, and go round the loop
FlushSendDone(h) ==
    /\ flushPc[h] = "sending"
    /\ buffer' = BufferAfterSend(buffer, flushBatch[h], SendOk)
    /\ sendErrs' = IF SendOk THEN sendErrs ELSE sendErrs + 1
    /\ flushBatch' = [flushBatch EXCEPT ![h] = <<>>]
    /\ bufLock' = IF bufLock = FlushTask(h) THEN Free ELSE bufLock
    /\ flushPc' = [flushPc EXCEPT ![h] = FlushLoopTop]
    /\ UNCHANGED <<agentVars, extVars, svc, connected, is_running, current, curLock,
                   startPc, taskPc, stopPc, stopBatch,
                   track_handle, flush_handle, sent, nextId, listeners, queue, nBatches,
                   stopDrains, stopMidCycle>>

\* ------------------------------------------------ Keylogger: key events
\* key_to_string: a letter gives its character, a modifier the empty string
KeyToString(k) == IF k = "KeyA" THEN <<"a">> ELSE <<>>

\* a KeystrokeBuffer: ts is the timestamp of its first key event, by the
\* processing task that created it
Stroke(keys, ts, by) == [keys |-> keys, ts |-> ts, by |-> by]

\* "None => true, Some(stroke) => application or window differ, or
\*  stroke.keys.len() >= max_size"
ShouldStartNew(cur, same) ==
    \/ cur = None
    \/ ~same
    \/ Len(cur[1].keys) >= KeystrokeBufferSize

\* process_key_event by processing task h on (current_stroke, buffer)
ProcessKeyEvent(ev, same, h, cur, buf) ==
    LET ks == KeyToString(ev.key) IN
    IF ks = <<>>
    THEN [cur |-> cur, buf |-> buf]
    ELSE IF ShouldStartNew(cur, same)
    THEN [cur |-> Some(Stroke(ks, ev.ts, h)), buf |-> WithCurrentStroke(cur, buf)]
    ELSE [cur |-> Some([cur[1] EXCEPT !.keys = @ \o ks]), buf |-> buf]

\* a key is pressed: every live listener thread sends a KeyEvent down its
\* own channel
KeyPress ==
    /\ IsKL
    /\ listeners # {}
    /\ nextId <= MaxKeys
    /\ \E k \in Keys :
         queue' = [h \in Starters |->
                     IF h \in listeners
                     THEN Append(queue[h], [key |-> k, ts |-> nextId])
                     ELSE queue[h]]
    /\ nextId' = nextId + 1
    /\ UNCHANGED <<agentVars, extVars, svc, connected, is_running, current, buffer, curLock, bufLock,
                   startPc, taskPc, flushPc, flushBatch, stopPc, stopBatch,
                   track_handle, flush_handle, sent, listeners, nBatches,
                   sendErrs, stopDrains, stopMidCycle>>

\* "if let Some(event) = rx.recv().await { process_key_event(..) }".  No
\* guard of the keylogger is held across a send, so the locked section of
\* process_key_event is one step.
ProcRecv(h) ==
    /\ IsKL
    /\ taskPc[h] = "recv"
    /\ queue[h] # <<>>
    /\ \E same \in SameWindow :
         LET r == ProcessKeyEvent(Head(queue[h]), same, h, current, buffer) IN
         /\ current' = r.cur
         /\ buffer' = r.buf
    /\ queue' = [queue EXCEPT ![h] = Tail(@)]
    /\ taskPc' = [taskPc EXCEPT ![h] = TaskLoopTop]
    /\ UNCHANGED <<agentVars, extVars, svc, connected, is_running, curLock, bufLock,
                   startPc, flushPc, flushBatch, stopPc, stopBatch,
                   track_handle, flush_handle, sent, nextId, listeners, nBatches,
                   sendErrs, stopDrains, stopMidCycle>>

\* ---------------------------------------------------------------- stop()
\* JoinHandle::abort: a task that has not ended is cancelled
AbortedPc(pc) == IF pc = "none" THEN pc ELSE "done"

\* a flush timer task is in its sleep or in its flush
TimerMidCycle == \E h \in Starters : flushPc[h] \in {"sleep", "drain", "sending"}

\* "*self.is_running.write().await = false;"
StopSet ==
    /\ stopPc = "idle"
    /\ is_running' = FALSE
    /\ stopMidCycle' = TimerMidCycle
    /\ stopPc' = IF IsAT THEN "commit" ELSE "take"
    /\ UNCHANGED <<agentVars, extVars, svc, connected, current, buffer, curLock, bufLock,
                   startPc, taskPc, flushPc, flushBatch, stopBatch,
                   track_handle, flush_handle, sent, nextId, listeners, queue, nBatches,
                   sendErrs, stopDrains>>

\* ActivityTracker::commit_current_activity; d is the reading of
\* now - current.start_time
StopCommit ==
    /\ IsAT
    /\ stopPc = "commit"
    /\ curLock = Free
    /\ \E d \in Durations :
         IF current # None /\ LongEnough(d)
         THEN /\ nextId <= MaxRecords
              /\ IF bufLock = Free
                 THEN /\ buffer' = Append(buffer, Entry(nextId))
                      /\ nextId' = nextId + 1
                      /\ current' = None
                      /\ stopPc' = "drain"
                      /\ UNCHANGED curLock
                 ELSE /\ curLock' = Stopper
                      /\ stopPc' = "commit_push"
                      /\ UNCHANGED <<current, buffer, nextId>>
         ELSE /\ current' = None
              /\ stopPc' = "drain"
              /\ UNCHANGED <<buffer, curLock, nextId>>
    /\ UNCHANGED <<agentVars, extVars, svc, connected, is_running, bufLock, startPc, taskPc,
                   flushPc, flushBatch, stopBatch, track_handle, flush_handle,
                   sent, listeners, queue, nBatches,
                   sendErrs, stopDrains, stopMidCycle>>

StopCommitPush ==
    /\ IsAT
    /\ stopPc = "commit_push"
    /\ bufLock = Free
    /\ buffer' = Append(buffer, Entry(nextId))
    /\ nextId' = nextId + 1
    /\ current' = None
    /\ curLock' = Free
    /\ stopPc' = "drain"
    /\ UNCHANGED <<agentVars, extVars, svc, connected, is_running, bufLock, startPc, taskPc,
                   flushPc, flushBatch, stopBatch, track_handle, flush_handle,
                   sent, listeners, queue, nBatches,
                   sendErrs, stopDrains, stopMidCycle>>

\* Keylogger::flush_buffer called by stop(), first block
StopFlushTake ==
    /\ IsKL
    /\ stopPc = "take"
    /\ buffer' = WithCurrentStroke(current, buffer)
    /\ current' = None
    /\ stopPc' = "drain"
    /\ UNCHANGED <<agentVars, extVars, svc, connected, is_running, curLock, bufLock,
                   startPc, taskPc, flushPc, flushBatch, stopBatch,
                   track_handle, flush_handle, sent, nextId, listeners, queue, nBatches,
                   sendErrs, stopDrains, stopMidCycle>>

\* flush_buffer called by stop(): the drain
StopFlushDrain ==
    /\ stopPc = "drain"
    /\ bufLock = Free
    /\ stopDrains' = stopDrains + 1
    /\ IF buffer = <<>>
       THEN /\ stopPc' = "abort"
            /\ UNCHANGED <<buffer, bufLock, stopBatch, sent, nBatches>>
       ELSE /\ stopBatch' = DrainedEntries(buffer)
            /\ buffer' = DrainRemainder(buffer)
            /\ sent' = sent \o DrainedEntries(buffer)
            /\ nBatches' = nBatches + 1
            /\ bufLock' = IF HoldsBufferAcrossSend(svc) THEN Stopper ELSE Free
            /\ stopPc' = "sending"
    /\ UNCHANGED <<agentVars, extVars, svc, connected, is_running, current, curLock,
                   startPc, taskPc, flushPc, flushBatch,
                   track_handle, flush_handle, nextId, listeners, queue,
                   sendErrs, stopMidCycle>>

StopSendDone ==
    /\ stopPc = "sending"
    /\ buffer' = BufferAfterSend(buffer, stopBatch, SendOk)
    /\ sendErrs' = IF SendOk THEN sendErrs ELSE sendErrs + 1
    /\ stopBatch' = <<>>
    /\ bufLock' = IF bufLock = Stopper THEN Free ELSE bufLock
    /\ stopPc' = "abort"
    /\ UNCHANGED <<agentVars, extVars, svc, connected, is_running, current, curLock,
                   startPc, taskPc, flushPc, flushBatch,
                   track_handle, flush_handle, sent, nextId, listeners, queue, nBatches,
                   stopDrains, stopMidCycle>>

\* "if let Some(handle) = self.track_handle.write().await.take() { handle.abort(); }"
\* (ActivityTracker only) and the same for flush_handle.  An aborted task
\* drops the guards it holds and the send it is waiting for.
StopAbort ==
    /\ stopPc = "abort"
    /\ IF IsAT /\ track_handle # 0
       THEN /\ taskPc' = [taskPc EXCEPT ![track_handle] = AbortedPc(@)]
            /\ curLock' = IF curLock = TrackTask(track_handle) THEN Free ELSE curLock
       ELSE UNCHANGED <<taskPc, curLock>>
    /\ IF flush_handle # 0
       THEN /\ flushPc' = [flushPc EXCEPT ![flush_handle] = AbortedPc(@)]
            /\ flushBatch' = [flushBatch EXCEPT ![flush_handle] = <<>>]
            /\ bufLock' = IF bufLock = FlushTask(flush_handle) THEN Free ELSE bufLock
       ELSE UNCHANGED <<flushPc, flushBatch, bufLock>>
    /\ track_handle' = 0
    /\ flush_handle' = 0
    /\ stopPc' = "returned"
    /\ UNCHANGED <<agentVars, extVars, svc, connected, is_running, current, buffer,
                   startPc, stopBatch, sent, nextId, listeners, queue, nBatches,
                   sendErrs, stopDrains, stopMidCycle>>

\* ------------------------------------------------------------------ Spec
NextBatch ==
    \/ SocketUp
    \/ SocketDown
    \/ \E h \in Starters : StartCheck(h)
    \/ \E h \in Starters : StartSet(h)
    \/ \E h \in Starters : StartSpawn(h)
    \/ \E h \in Starters : TrackWindow(h)
    \/ \E h \in Starters : TrackPush(h)
    \/ \E h \in Starters : FlushTake(h)
    \/ \E h \in Starters : FlushDrain(h)
    \/ \E h \in Starters : FlushSendDone(h)
    \/ KeyPress
    \/ \E h \in Starters : ProcRecv(h)
    \/ StopSet
    \/ StopCommit
    \/ StopCommitPush
    \/ StopFlushTake
    \/ StopFlushDrain
    \/ StopSendDone
    \/ StopAbort

\* ---- stop() called again (SpecLife)
\* the service is stopped: its flag is false and no start() is on its way
\* between its check and its return
IsStopped == ~is_running /\ \A h \in Starters : startPc[h] \notin {"set", "spawn"}

LifeIdle == stopOnStopped = FALSE

\* a further call of stop() after one has returned: its first statement,
\* "*self.is_running.write().await = false;"
StopAgain ==
    /\ stopPc = "returned"
    /\ stopDrains < MaxStops
    /\ is_running' = FALSE
    /\ stopMidCycle' = TimerMidCycle
    /\ stopOnStopped' = IsStopped
    /\ stopPc' = IF IsAT THEN "commit" ELSE "take"
    /\ UNCHANGED <<agentVars, cmdVars, fileVars, termVars, cfgVars, moreVars,
                   svc, connected, current, buffer, curLock, bufLock,
                   startPc, taskPc, flushPc, flushBatch, stopBatch,
                   track_handle, flush_handle, sent, nextId, listeners, queue, nBatches,
                   sendErrs, stopDrains>>

NextLife ==
    \/ SocketUp
    \/ SocketDown
    \/ \E h \in Starters : StartCheck(h)
    \/ \E h \in Starters : StartSet(h)
    \/ \E h \in Starters : StartSpawn(h)
    \/ \E h \in Starters : TrackWindow(h)
    \/ \E h \in Starters : TrackPush(h)
    \/ \E h \in Starters : FlushTake(h)
    \/ \E h \in Starters : FlushDrain(h)
    \/ \E h \in Starters : FlushSendDone(h)
    \/ KeyPress
    \/ \E h \in Starters : ProcRecv(h)
    \/ StopSet
    \/ StopCommit
    \/ StopCommitPush
    \/ StopFlushTake
    \/ StopFlushDrain
    \/ StopSendDone
    \/ StopAbort
    \/ StopAgain

\* ====================== the keylogger while it runs (SpecKeys): keylogger.rs
\* The keylogger after one start() has returned: the flag set, the listener
\* thread, the key processing task at its recv and the flush task in its
\* sleep (keylogger.rs:50-122), the socket connected.
KeysStarted ==
    /\ svc = KeyloggerSvc
    /\ connected = TRUE
    /\ is_running = TRUE
    /\ current = None
    /\ buffer = <<>>
    /\ curLock = Free
    /\ bufLock = Free
    /\ startPc = [h \in Starters |-> IF h = 1 THEN "returned" ELSE "idle"]
    /\ taskPc = [h \in Starters |-> IF h = 1 THEN "recv" ELSE "none"]
    /\ flushPc = [h \in Starters |-> IF h = 1 THEN "sleep" ELSE "none"]
    /\ flushBatch = [h \in Starters |-> <<>>]
    /\ stopPc = "idle"
    /\ stopBatch = <<>>
    /\ track_handle = 0
    /\ flush_handle = 1
    /\ sent = <<>>
    /\ nBatches = 0
    /\ sendErrs = 0
    /\ stopDrains = 0
    /\ stopMidCycle = FALSE
    /\ nextId = 1
    /\ listeners = {1}
    /\ queue = [h \in Starters |-> <<>>]

\* a key is pressed before the flush timer has sent its first batch and the
\* listener thread sends its KeyEvent down the channel, which the processing
\* task has emptied
KeyTyped ==
    /\ IsKL
    /\ listeners # {}
    /\ nextId <= MaxKeyEvents
    /\ nBatches = 0
    /\ \A h \in Starters : queue[h] = <<>>
    /\ \E k \in Keys :
         queue' = [h \in Starters |->
                     IF h \in listeners
                     THEN Append(queue[h], [key |-> k, ts |-> nextId])
                     ELSE queue[h]]
    /\ nextId' = nextId + 1
    /\ UNCHANGED <<agentVars, extVars, svc, connected, is_running, current, buffer, curLock, bufLock,
                   startPc, taskPc, flushPc, flushBatch, stopPc, stopBatch,
                   track_handle, flush_handle, sent, listeners, nBatches,
                   sendErrs, stopDrains, stopMidCycle>>

NextKeys ==
    \/ KeyTyped
    \/ \E h \in Starters : ProcRecv(h)
    \/ \E h \in Starters : FlushTake(h)
    \/ \E h \in Starters : FlushDrain(h)
    \/ \E h \in Starters : FlushSendDone(h)

\* ======================================================= run_agent (SpecAgent)

\* The tokio runtime lives while run_agent has not returned and the process
\* has not ended: a process whose main() returned runs no thread.
RuntimeAlive == process = "running" /\ mainPc \notin {"returned", "done"}
\* src/agent-rust/src/main.rs:306-327 (run_agent (supervisor loop))
SupervisorPcs == {"loop", "sleep", "check", "reconnect"}

NextStart(i) == IF i < Len(Services) THEN <<"check", i + 1>> ELSE <<"done", i>>
NextStop(i) == IF i < Len(ShutdownOrder) THEN <<"stop", i + 1>> ELSE <<"disconnect", i>>

InitAgent ==
    /\ mainPc = "connect"
    /\ stopIdx = 1
    /\ exit_flag = FALSE
    /\ is_connected = FALSE
    /\ handlers_registered = FALSE
    /\ is_monitoring = FALSE
    /\ authPc = [t \in Starters |-> "none"]
    /\ authIdx = [t \in Starters |-> 1]
    /\ svcRunning = [s \in MonitoringServices |-> FALSE]
    /\ handle = [s \in MonitoringServices |-> None]
    /\ tasks = [s \in MonitoringServices |-> 0]
    /\ produced = 0
    /\ auth_received = FALSE
    /\ lastConnect = "none"
    /\ process = "running"
    /\ status = "Connecting"

\* ---- main() (main.rs:137-164): the callback of the tray event loop
\* returns false once exit_requested is true, the loop breaks and main()
\* returns without joining the agent thread: the process ends with whatever
\* run_agent and the tasks of its runtime were doing.
TrayLoopEnds ==
    /\ process = "running"
    /\ exit_flag
    /\ process' = "exited"
    /\ UNCHANGED <<batchVars, extVars, status, mainPc, stopIdx, exit_flag, is_connected,
                   handlers_registered, is_monitoring, authPc, authIdx, svcRunning,
                   handle, tasks, produced, auth_received, lastConnect>>

\* ---- the tray (tray.rs:78): the Exit menu item stores true in exit_requested
RequestExit ==
    /\ process = "running"
    /\ ~exit_flag
    /\ exit_flag' = TRUE
    /\ UNCHANGED <<batchVars, extVars, process, status, mainPc, stopIdx, is_connected, handlers_registered, is_monitoring,
                   authPc, authIdx, svcRunning, handle, tasks, produced,
                   auth_received, lastConnect>>

\* ---- the socket client (spec, 4.1 and 4.2)
\* the transport closes under the agent
TransportClose ==
    /\ RuntimeAlive
    /\ is_connected
    /\ is_connected' = FALSE
    /\ UNCHANGED <<batchVars, extVars, process, status, mainPc, stopIdx, exit_flag, handlers_registered, is_monitoring,
                   authPc, authIdx, svcRunning, handle, tasks, produced,
                   auth_received, lastConnect>>

\* The server answers auth-success: the client invokes the callback given to
\* on_auth_success, if one is registered; the callback (main.rs:231-254)
\* spawns a task.
AuthSuccess ==
    /\ RuntimeAlive
    /\ is_connected
    /\ \E t \in Starters :
         /\ authPc[t] = "none"
         /\ \A g \in Starters : g < t => authPc[g] # "none"
         /\ authPc' = IF handlers_registered
                        THEN [authPc EXCEPT ![t] = "mon"]
                        ELSE authPc
    /\ auth_received' = TRUE
    /\ UNCHANGED <<batchVars, extVars, process, status, mainPc, stopIdx, exit_flag, is_connected, handlers_registered,
                   is_monitoring, authIdx, svcRunning, handle, tasks,
                   produced, lastConnect>>

\* ---- the task spawned by the auth-success callback (main.rs:241-253)
\* *is_monitoring.write().await = true
HandlerMonitoring(t) ==
    /\ RuntimeAlive
    /\ authPc[t] = "mon"
    /\ is_monitoring' = TRUE
    /\ authPc' = [authPc EXCEPT ![t] = "check"]
    /\ authIdx' = [authIdx EXCEPT ![t] = 1]
    /\ UNCHANGED <<batchVars, extVars, process, status, mainPc, stopIdx, exit_flag, is_connected, handlers_registered,
                   svcRunning, handle, tasks, produced, auth_received, lastConnect>>

\* start(): if *self.is_running.read().await { return; }
AlreadyRunningIgnored(s) == FALSE
AlreadyRunning(s) == svcRunning[s]

HandlerStartCheck(t) ==
    /\ RuntimeAlive
    /\ authPc[t] = "check"
    /\ LET nx == IF AlreadyRunning(Services[authIdx[t]])
                   THEN NextStart(authIdx[t])
                   ELSE <<"spawn", authIdx[t]>>
       IN /\ authPc' = [authPc EXCEPT ![t] = nx[1]]
          /\ authIdx' = [authIdx EXCEPT ![t] = nx[2]]
    /\ UNCHANGED <<batchVars, extVars, process, status, mainPc, stopIdx, exit_flag, is_connected, handlers_registered,
                   is_monitoring, svcRunning, handle, tasks, produced,
                   auth_received, lastConnect>>

\* start() past its check: *self.is_running.write().await = true, then
\* tokio::spawn of the background tasks, the handle stored over the one
\* that was there
HandlerStartSpawn(t) ==
    /\ RuntimeAlive
    /\ authPc[t] = "spawn"
    /\ LET s == Services[authIdx[t]]
           nx == NextStart(authIdx[t])
       IN /\ svcRunning' = [svcRunning EXCEPT ![s] = TRUE]
          /\ tasks' = [tasks EXCEPT ![s] = @ + 1]
          /\ handle' = [handle EXCEPT ![s] = Some(<<>>)]
          /\ authPc' = [authPc EXCEPT ![t] = nx[1]]
          /\ authIdx' = [authIdx EXCEPT ![t] = nx[2]]
    /\ UNCHANGED <<batchVars, extVars, process, status, mainPc, stopIdx, exit_flag, is_connected, handlers_registered,
                   is_monitoring, produced, auth_received, lastConnect>>

\* ---- one turn of the loop of a background task of service s, with the
\* flag read true at the loop top: it produces a record (sent, or buffered
\* by a batching service).  A task that reads the flag false ends; the model
\* keeps it in tasks, where it does nothing.
ServiceTick(s) ==
    /\ RuntimeAlive
    /\ tasks[s] > 0
    /\ svcRunning[s]
    /\ produced < MaxProduced
    /\ produced' = produced + 1
    /\ UNCHANGED <<batchVars, extVars, process, status, mainPc, stopIdx, exit_flag, is_connected, handlers_registered,
                   is_monitoring, authPc, authIdx, svcRunning, handle, tasks,
                   auth_received, lastConnect>>

\* ---- run_agent (main.rs:167-342)
\* socket.connect() at startup (main.rs:191-201): on Err the error is shown
\* and run_agent returns; StatusUpdate::Connected or ::Error is sent
InitialConnect(ok) ==
    /\ RuntimeAlive
    /\ mainPc = "connect"
    /\ is_connected' = ok
    /\ lastConnect' = IF ok THEN "ok" ELSE "err"
    /\ mainPc' = IF ok THEN "register" ELSE "returned"
    /\ status' = IF ok THEN "Connected" ELSE "Error"
    /\ UNCHANGED <<batchVars, extVars, process, stopIdx, exit_flag, handlers_registered, is_monitoring, authPc,
                   authIdx, svcRunning, handle, tasks, produced,
                   auth_received>>

\* (a bug: the services are started where the handlers are registered)
RegisterAndStart ==
    /\ RuntimeAlive
    /\ mainPc = "register"
    /\ handlers_registered' = TRUE
    /\ authPc' = [authPc EXCEPT ![1] = "mon"]
    /\ mainPc' = "loop"
    /\ UNCHANGED <<batchVars, extVars, process, status, stopIdx, exit_flag, is_connected, is_monitoring, authIdx,
                   svcRunning, handle, tasks, produced, auth_received, lastConnect>>

\* the services are created and the handlers registered (main.rs:206-302)
RegisterHandlers ==
    /\ RuntimeAlive
    /\ mainPc = "register"
    /\ handlers_registered' = TRUE
    /\ mainPc' = "loop"
    /\ UNCHANGED <<batchVars, extVars, process, status, stopIdx, exit_flag, is_connected, is_monitoring, authPc,
                   authIdx, svcRunning, handle, tasks, produced,
                   auth_received, lastConnect>>

\* loop top (main.rs:308-311): break when exit was requested
LoopCheckExit ==
    /\ RuntimeAlive
    /\ mainPc = "loop"
    /\ mainPc' = IF exit_flag THEN "stop" ELSE "sleep"
    /\ stopIdx' = 1
    /\ UNCHANGED <<batchVars, extVars, process, status, exit_flag, is_connected, handlers_registered, is_monitoring,
                   authPc, authIdx, svcRunning, handle, tasks, produced,
                   auth_received, lastConnect>>

\* tokio::time::sleep(1 s) is over (main.rs:313)
SleepDone ==
    /\ RuntimeAlive
    /\ mainPc = "sleep"
    /\ mainPc' = "check"
    /\ UNCHANGED <<batchVars, extVars, process, status, stopIdx, exit_flag, is_connected, handlers_registered,
                   is_monitoring, authPc, authIdx, svcRunning, handle, tasks,
                   produced, auth_received, lastConnect>>

\* (a bug: a lost connection is left alone)
CheckConnectedOnly ==
    /\ RuntimeAlive
    /\ mainPc = "check"
    /\ mainPc' = "loop"
    /\ UNCHANGED <<batchVars, extVars, process, status, stopIdx, exit_flag, is_connected, handlers_registered,
                   is_monitoring, authPc, authIdx, svcRunning, handle, tasks,
                   produced, auth_received, lastConnect>>

\* if !socket.is_connected().await (main.rs:316), and then
\* status_tx.send(StatusUpdate::Disconnected)
CheckConnected ==
    /\ RuntimeAlive
    /\ mainPc = "check"
    /\ mainPc' = IF ~is_connected THEN "reconnect" ELSE "loop"
    /\ status' = IF ~is_connected THEN "Disconnected" ELSE status
    /\ UNCHANGED <<batchVars, extVars, process, stopIdx, exit_flag, is_connected, handlers_registered,
                   is_monitoring, authPc, authIdx, svcRunning, handle, tasks,
                   produced, auth_received, lastConnect>>

\* (a bug: a reconnect that also resets the running flags of the services)
ReconnectAndReset(ok) ==
    /\ RuntimeAlive
    /\ mainPc = "reconnect"
    /\ is_connected' = ok
    /\ lastConnect' = IF ok THEN "ok" ELSE "err"
    /\ svcRunning' = [s \in MonitoringServices |-> FALSE]
    /\ status' = IF ok THEN "Connected" ELSE status
    /\ mainPc' = "loop"
    /\ UNCHANGED <<batchVars, extVars, process, stopIdx, exit_flag, handlers_registered, is_monitoring, authPc,
                   authIdx, handle, tasks, produced, auth_received>>

\* socket.connect() of the supervisor (main.rs:320-325): Err is logged, Ok
\* sends StatusUpdate::Connected
Reconnect(ok) ==
    /\ RuntimeAlive
    /\ mainPc = "reconnect"
    /\ is_connected' = ok
    /\ lastConnect' = IF ok THEN "ok" ELSE "err"
    /\ status' = IF ok THEN "Connected" ELSE status
    /\ mainPc' = "loop"
    /\ UNCHANGED <<batchVars, extVars, process, stopIdx, exit_flag, handlers_registered, is_monitoring, authPc,
                   authIdx, svcRunning, handle, tasks, produced,
                   auth_received>>

\* ---- shutdown (main.rs:329-339), the stop() calls in ShutdownOrder
\* stop() of a monitoring service: the flag is set false, the handle taken
\* and its task aborted (the final flush of a batching service is a step of
\* Spec); terminal.stop_all() kills the terminal sessions, which are no
\* part of this model
StopService ==
    /\ RuntimeAlive
    /\ mainPc = "stop"
    /\ LET s == ShutdownOrder[stopIdx]
           nx == NextStop(stopIdx)
       IN /\ IF s \in MonitoringServices
               THEN /\ svcRunning' = [svcRunning EXCEPT ![s] = FALSE]
                    /\ tasks' = [tasks EXCEPT ![s] = IF handle[s] # None THEN @ - 1 ELSE @]
                    /\ handle' = [handle EXCEPT ![s] = None]
               ELSE UNCHANGED <<svcRunning, tasks, handle>>
          /\ mainPc' = nx[1]
          /\ stopIdx' = nx[2]
    /\ UNCHANGED <<batchVars, extVars, process, status, exit_flag, is_connected, handlers_registered, is_monitoring,
                   authPc, authIdx, produced, auth_received, lastConnect>>

\* socket.disconnect() (main.rs:339); run_agent returns and the runtime is
\* dropped with its tasks
Disconnect ==
    /\ RuntimeAlive
    /\ mainPc = "disconnect"
    /\ is_connected' = FALSE
    /\ mainPc' = "done"
    /\ UNCHANGED <<batchVars, extVars, process, status, stopIdx, exit_flag, handlers_registered, is_monitoring, authPc,
                   authIdx, svcRunning, handle, tasks, produced,
                   auth_received, lastConnect>>

NextAgent ==
    \/ RequestExit
    \/ TransportClose
    \/ AuthSuccess
    \/ \E t \in Starters : HandlerMonitoring(t)
    \/ \E t \in Starters : HandlerStartCheck(t)
    \/ \E t \in Starters : HandlerStartSpawn(t)
    \/ \E s \in MonitoringServices : ServiceTick(s)
    \/ \E ok \in BOOLEAN : InitialConnect(ok)
    \/ RegisterHandlers
    \/ LoopCheckExit
    \/ SleepDone
    \/ CheckConnected
    \/ \E ok \in BOOLEAN : Reconnect(ok)
    \/ StopService
    \/ Disconnect

\* run_agent and main(): the process may end once the Exit item was clicked
NextMain ==
    \/ RequestExit
    \/ TrayLoopEnds
    \/ TransportClose
    \/ AuthSuccess
    \/ \E t \in Starters : HandlerMonitoring(t)
    \/ \E t \in Starters : HandlerStartCheck(t)
    \/ \E t \in Starters : HandlerStartSpawn(t)
    \/ \E s \in MonitoringServices : ServiceTick(s)
    \/ \E ok \in BOOLEAN : InitialConnect(ok)
    \/ RegisterHandlers
    \/ LoopCheckExit
    \/ SleepDone
    \/ CheckConnected
    \/ \E ok \in BOOLEAN : Reconnect(ok)
    \/ StopService
    \/ Disconnect


\* ================================================== commands.rs (SpecCmd)
\* Option<String> values of a command response
\* src/agent-rust/src/services/commands.rs:45 (execute_command (success, response, error))
Triple(success, output, error) == [success |-> success, output |-> output, error |-> error]

\* the commands that start a process with spawn() and do not wait for it
SpawnCommands == {"LOCK", "SHUTDOWN", "RESTART", "LOGOFF", "SLEEP", "MESSAGE"}
\* the commands that run a process with output() and wait for its exit
OutputCommands == {"EXECUTE", "KILL_PROCESS"}
\* the names execute_command matches
KnownCommands == SpawnCommands \cup OutputCommands \cup {"UNLOCK"}

\* The command events of a behaviour: the name, and whether the payload
\* holds the argument the command reads ("command" of EXECUTE, "processId"
\* of KILL_PROCESS).  "SELFTEST" is a name execute_command does not know.
\* src/agent-rust/src/services/commands.rs:42-97 (execute_command (data.command, data.payload))
CommandInputs ==
    {[command |-> n, arg |-> FALSE] : n \in {"LOCK", "UNLOCK", "SELFTEST"}}
    \cup {[command |-> n, arg |-> a] : n \in OutputCommands, a \in BOOLEAN}

\* what the operating system answers: spawn() gives Ok or Err; output()
\* gives Err, or Ok with an exit status that is success or not
\* src/agent-rust/src/services/commands.rs:110-148 (lock_screen (result of Command::spawn))
SpawnOutcomes == {"ok", "err"}
\* src/agent-rust/src/services/commands.rs:377-401 (execute_system_command
\*   (output.status.success()))
ExitOutcomes == {"ok", "nonzero"}

\* lock_screen and its siblings shutdown, restart, logoff, sleep,
\* show_message: "Ok(_) => (true, Some(..), None), Err(e) => (false, None, Some(..))"
SpawnDone(name) ==
    CASE name = "LOCK" -> "Screen locked"
      [] name = "SHUTDOWN" -> "Shutdown initiated"
      [] name = "RESTART" -> "Restart initiated"
      [] name = "LOGOFF" -> "Logoff initiated"
      [] name = "SLEEP" -> "Sleep initiated"
      [] name = "MESSAGE" -> "Message displayed"
SpawnFailed(name) ==
    CASE name = "LOCK" -> "Failed to lock screen"
      [] name = "SHUTDOWN" -> "Failed to shutdown"
      [] name = "RESTART" -> "Failed to restart"
      [] name = "LOGOFF" -> "Failed to logoff"
      [] name = "SLEEP" -> "Failed to sleep"
      [] name = "MESSAGE" -> "Failed to show message"
lock_screen(name, os) ==
    IF os = "ok"
    THEN Triple(TRUE, Some(SpawnDone(name)), None)
    ELSE Triple(FALSE, None, Some(SpawnFailed(name)))

\* execute_system_command: the match on the result of output()
execute_system_command(os) ==
    CASE os = "ok" -> Triple(TRUE, Some("stdout"), None)
      [] os = "nonzero" -> Triple(FALSE, Some("stdout"), Some("stderr"))
      [] os = "err" -> Triple(FALSE, None, Some("Failed to execute command"))

\* kill_process: the match on the result of output()
kill_process(os) ==
    CASE os = "ok" -> Triple(TRUE, Some("Process terminated"), None)
      [] os = "nonzero" -> Triple(FALSE, None, Some("Failed to kill process"))
      [] os = "err" -> Triple(FALSE, None, Some("Failed to kill process"))

\* the arms of the match of execute_command that call nothing
NeedsNoProcess(name, arg) ==
    \/ name = "UNLOCK"
    \/ name \in OutputCommands /\ ~arg
    \/ name \notin KnownCommands

\* execute_command, the value of its match: os is what the operating
\* system answered to the arm that asked it
CommandResult(name, arg, os) ==
    CASE name \in SpawnCommands -> lock_screen(name, os)
      [] name = "UNLOCK" -> Triple(TRUE, Some("Unlock command received"), None)
      [] name = "EXECUTE" /\ arg -> execute_system_command(os)
      [] name = "EXECUTE" /\ ~arg -> Triple(FALSE, None, Some("No command provided"))
      [] name = "KILL_PROCESS" /\ arg -> kill_process(os)
      [] name = "KILL_PROCESS" /\ ~arg -> Triple(FALSE, None, Some("No process ID provided"))
      [] OTHER -> Triple(FALSE, None, Some("Unknown command"))

Response(id, r) ==
    [id |-> id, success |-> r.success, output |-> r.output, error |-> r.error]

\* "socket.send_command_response(data.id, success, response, error).await":
\* the calls execute_command makes once its match has a value
\* (a bug: a failure returns without an answer)
ResponsesSentOnSuccess(id, r) == IF r.success THEN <<Response(id, r)>> ELSE <<>>
ResponsesSent(id, r) == <<Response(id, r)>>

NoCommand == [pc |-> "none", command |-> "", arg |-> FALSE, os |-> "none"]

InitCmd ==
    /\ cmd = [c \in CmdIds |-> NoCommand]
    /\ responses = [c \in CmdIds |-> <<>>]
    /\ osActions = {}

\* A command event arrives on the open transport; the client hands it to
\* the callback given to on_command, if there is one (spec, 4.3 and 4.6).
\* The callback (commands.rs:29-35) spawns a task that runs execute_command;
\* it looks at no state of the agent.  The event's id is c.
CommandEvent ==
    /\ RuntimeAlive
    /\ is_connected
    /\ \E c \in CmdIds, in \in CommandInputs :
         /\ cmd[c].pc = "none"
         /\ \A d \in CmdIds : d < c => cmd[d].pc # "none"
         /\ cmd' = [cmd EXCEPT ![c] =
                      [pc |-> IF handlers_registered THEN "match" ELSE "dropped",
                       command |-> in.command, arg |-> in.arg, os |-> "none"]]
    /\ UNCHANGED <<batchVars, agentVars, fileVars, termVars, lifeVars, cfgVars, moreVars, responses, osActions>>

\* execute_command reaches its match.  An arm that calls nothing has its
\* value at once; a spawn() arm starts the process and has Ok or Err; an
\* output() arm has Err, or starts the process and waits in output() for its
\* exit, inside the task the callback spawned.
CmdMatch(c) ==
    /\ RuntimeAlive
    /\ cmd[c].pc = "match"
    /\ LET name == cmd[c].command
           arg == cmd[c].arg
       IN IF NeedsNoProcess(name, arg)
          THEN /\ cmd' = [cmd EXCEPT ![c].pc = "respond"]
               /\ UNCHANGED osActions
          ELSE \E os \in SpawnOutcomes :
                 /\ cmd' = [cmd EXCEPT ![c].pc = IF name \in OutputCommands /\ os = "ok"
                                                   THEN "output" ELSE "respond",
                                       ![c].os = os]
                 /\ osActions' = IF os = "ok" THEN osActions \cup {c} ELSE osActions
    /\ UNCHANGED <<batchVars, agentVars, fileVars, termVars, lifeVars, cfgVars, moreVars, responses>>

\* the process run by output() exits: output() returns to the task
CmdChildExit(c) ==
    /\ RuntimeAlive
    /\ cmd[c].pc = "output"
    /\ \E os \in ExitOutcomes :
         cmd' = [cmd EXCEPT ![c].pc = "respond", ![c].os = os]
    /\ UNCHANGED <<batchVars, agentVars, fileVars, termVars, lifeVars, cfgVars, moreVars, responses, osActions>>

\* the end of execute_command (commands.rs:100-106): an Err of the send is
\* logged
CmdRespond(c) ==
    /\ RuntimeAlive
    /\ cmd[c].pc = "respond"
    /\ responses' = [responses EXCEPT ![c] =
                       @ \o ResponsesSent(c, CommandResult(cmd[c].command, cmd[c].arg, cmd[c].os))]
    /\ cmd' = [cmd EXCEPT ![c].pc = "done"]
    /\ UNCHANGED <<batchVars, agentVars, fileVars, termVars, lifeVars, cfgVars, moreVars, osActions>>

NextCmd ==
    \/ \E ok \in BOOLEAN : InitialConnect(ok)
    \/ RegisterHandlers
    \/ AuthSuccess
    \/ TransportClose
    \/ CommandEvent
    \/ \E c \in CmdIds : CmdMatch(c)
    \/ \E c \in CmdIds : CmdChildExit(c)
    \/ \E c \in CmdIds : CmdRespond(c)


\* ============================================ file_transfer.rs (SpecFile)
\* The events: a file-transfer event with its direction and file_data
\* (absent, not base64, base64), or a list-directory event.  "MOVE" is a
\* direction the callback does not know.
\* src/agent-rust/src/services/file_transfer.rs:50-80 (register_handlers (data.direction,
\*   data.file_data; list-directory))
RequestInputs ==
    {[kind |-> k, file_data |-> "none"] : k \in {"DOWNLOAD", "MOVE", "LIST"}}
    \cup {[kind |-> "UPLOAD", file_data |-> d] : d \in {"none", "garbage", "base64"}}

\* what the file system answers to handle_download before its first await:
\* path.exists(), path.is_dir(), fs::metadata(path)
\* src/agent-rust/src/services/file_transfer.rs:98-133 (handle_download (path.exists,
\*   path.is_dir, fs::metadata))
DownloadChecks == {"not_found", "is_dir", "metadata_err", "ok"}
\* fs::read(path); fs::create_dir_all(parent) and fs::write(path, ..)
\* src/agent-rust/src/services/file_transfer.rs:149-156 (handle_download (fs::read))
ReadResults == {"read_err", "ok"}
\* src/agent-rust/src/services/file_transfer.rs:233-250 (handle_upload (fs::create_dir_all,
\*   fs::write))
WriteResults == {"mkdir_err", "write_err", "ok"}
\* path.exists() and fs::read_dir(&path) of handle_list_directory
\* src/agent-rust/src/services/file_transfer.rs:276-303 (handle_list_directory (path.exists,
\*   fs::read_dir))
ListResults == {"dir_missing", "read_dir_err", "ok"}

\* src/agent-rust/src/services/file_transfer.rs:100-108 (socket.send_command_response /
\*   send_file_content / send_file_transfer_progress / send_directory_listing)
Msg(kind, ref) == [kind |-> kind, ref |-> ref]

\* the task of a request at pc with the path it took
\* src/agent-rust/src/services/file_transfer.rs:54-66 (register_handlers (tokio::spawn of the
\*   handler))
Task(in, pc, path) ==
    [pc |-> pc, kind |-> in.kind, file_data |-> in.file_data, path |-> path]

InitFile ==
    /\ req \in [ReqIds -> {Task(in, "start", "none") : in \in RequestInputs}]
    /\ outbox = [r \in ReqIds |-> <<>>]
    /\ active_transfers = {}

\* the file handlers with no event received, as the other specifications
\* keep them
FileIdle ==
    /\ req = [r \in ReqIds |-> Task([kind |-> "", file_data |-> "none"], "none", "none")]
    /\ outbox = [r \in ReqIds |-> <<>>]
    /\ active_transfers = {}

\* handle_download up to "transfers.write().await.insert(..)": the messages
\* sent for what the file system answered
DownloadCheckMsgs(r, fs) ==
    IF fs \in {"not_found", "is_dir"} THEN <<Msg("command_response", r)>> ELSE <<>>

DownloadCheck(r) ==
    /\ req[r].pc = "start"
    /\ req[r].kind = "DOWNLOAD"
    /\ \E fs \in DownloadChecks :
         /\ req' = [req EXCEPT ![r].pc = IF fs = "ok" THEN "read" ELSE "done",
                               ![r].path = fs]
         /\ outbox' = [outbox EXCEPT ![r] = @ \o DownloadCheckMsgs(r, fs)]
         /\ active_transfers' = IF fs = "ok" THEN active_transfers \cup {r}
                                ELSE active_transfers
    /\ UNCHANGED <<batchVars, agentVars, cmdVars, termVars, lifeVars, cfgVars, moreVars>>

\* handle_download from fs::read on: Err removes the transfer and returns;
\* Ok sends the content and the progress
DownloadReadMsgs(r, fs) ==
    IF fs = "ok" THEN <<Msg("file_content", r), Msg("file_transfer_progress", r)>>
    ELSE <<>>

DownloadRead(r) ==
    /\ req[r].pc = "read"
    /\ \E fs \in ReadResults :
         /\ req' = [req EXCEPT ![r].pc = "done", ![r].path = fs]
         /\ outbox' = [outbox EXCEPT ![r] = @ \o DownloadReadMsgs(r, fs)]
    /\ active_transfers' = active_transfers \ {r}
    /\ UNCHANGED <<batchVars, agentVars, cmdVars, termVars, lifeVars, cfgVars, moreVars>>

\* handle_upload up to the insert: file_data None and a failed decode return
UploadDecode(r) ==
    /\ req[r].pc = "start"
    /\ req[r].kind = "UPLOAD"
    /\ req' = [req EXCEPT ![r].pc = IF req[r].file_data = "base64" THEN "write" ELSE "done",
                          ![r].path = CASE req[r].file_data = "none" -> "no_data"
                                        [] req[r].file_data = "garbage" -> "decode_err"
                                        [] OTHER -> "ok"]
    /\ active_transfers' = IF req[r].file_data = "base64" THEN active_transfers \cup {r}
                           ELSE active_transfers
    /\ UNCHANGED <<batchVars, agentVars, cmdVars, termVars, lifeVars, cfgVars, moreVars, outbox>>

\* handle_upload from create_dir_all on: an Err removes the transfer and
\* returns; a written file is followed by the progress message
UploadWriteMsgs(r, fs) ==
    IF fs = "ok" THEN <<Msg("file_transfer_progress", r)>> ELSE <<>>

UploadWrite(r) ==
    /\ req[r].pc = "write"
    /\ \E fs \in WriteResults :
         /\ req' = [req EXCEPT ![r].pc = "done", ![r].path = fs]
         /\ outbox' = [outbox EXCEPT ![r] = @ \o UploadWriteMsgs(r, fs)]
    /\ active_transfers' = active_transfers \ {r}
    /\ UNCHANGED <<batchVars, agentVars, cmdVars, termVars, lifeVars, cfgVars, moreVars>>

\* the "_" arm of the callback's match on data.direction: a warn! line
UnknownDirection(r) ==
    /\ req[r].pc = "start"
    /\ req[r].kind \notin {"DOWNLOAD", "UPLOAD", "LIST"}
    /\ req' = [req EXCEPT ![r].pc = "done", ![r].path = "unknown_direction"]
    /\ UNCHANGED <<batchVars, agentVars, cmdVars, termVars, lifeVars, cfgVars, moreVars, outbox, active_transfers>>

\* handle_list_directory: a path that does not exist returns; a read_dir
\* that fails sends the listing with no entries
ListDirectoryMsgs(r, fs) ==
    IF fs = "dir_missing" THEN <<>> ELSE <<Msg("directory_listing", r)>>

ListDirectory(r) ==
    /\ req[r].pc = "start"
    /\ req[r].kind = "LIST"
    /\ \E fs \in ListResults :
         /\ req' = [req EXCEPT ![r].pc = "done", ![r].path = fs]
         /\ outbox' = [outbox EXCEPT ![r] = @ \o ListDirectoryMsgs(r, fs)]
    /\ UNCHANGED <<batchVars, agentVars, cmdVars, termVars, lifeVars, cfgVars, moreVars, active_transfers>>

NextFile ==
    \/ \E r \in ReqIds : DownloadCheck(r)
    \/ \E r \in ReqIds : DownloadRead(r)
    \/ \E r \in ReqIds : UploadDecode(r)
    \/ \E r \in ReqIds : UploadWrite(r)
    \/ \E r \in ReqIds : UnknownDirection(r)
    \/ \E r \in ReqIds : ListDirectory(r)


\* ================================================= terminal.rs (SpecTerm)
\* the terminal service with the task of each start-terminal event spawned
\* by the callback (terminal.rs:45-52) and about to run start_session_impl
InitTerm ==
    /\ termPc = [k \in TermTasks |-> "spawn"]
    /\ termId \in [TermTasks -> SessionIds]
    /\ child = [k \in TermTasks |-> "none"]
    /\ sessions = [i \in SessionIds |-> 0]
    /\ stopAllPc = "idle"

\* the terminal service with no event received, as the other
\* specifications keep it
TermIdle ==
    /\ termPc = [k \in TermTasks |-> "none"]
    /\ termId = [k \in TermTasks |-> "s1"]
    /\ child = [k \in TermTasks |-> "none"]
    /\ sessions = [i \in SessionIds |-> 0]
    /\ stopAllPc = "idle"

\* start_session_impl up to its first await: Command::spawn() of the shell.
\* Err sends the failure text and returns; Ok goes on to the stdin writer,
\* the reader threads and "sessions.lock().await".
TermSpawn(k) ==
    /\ termPc[k] = "spawn"
    /\ \E ok \in BOOLEAN :
         /\ child' = [child EXCEPT ![k] = IF ok THEN "alive" ELSE "none"]
         /\ termPc' = [termPc EXCEPT ![k] = IF ok THEN "insert" ELSE "done"]
    /\ UNCHANGED <<batchVars, agentVars, cmdVars, fileVars, lifeVars, cfgVars, moreVars, termId, sessions, stopAllPc>>

\* HashMap::insert: the entry of the key is replaced.  The TerminalSession
\* that was there is returned by insert and dropped; dropping a
\* std::process::Child neither kills nor waits for the process.
Insert(map, id, k) == [map EXCEPT ![id] = k]

\* "sessions.lock().await.insert(data.session_id.clone(), session)" and the
\* welcome message
TermInsert(k) ==
    /\ termPc[k] = "insert"
    /\ sessions' = Insert(sessions, termId[k], k)
    /\ termPc' = [termPc EXCEPT ![k] = "done"]
    /\ UNCHANGED <<batchVars, agentVars, cmdVars, fileVars, lifeVars, cfgVars, moreVars, termId, child, stopAllPc>>

\* child.kill()
Kill(ch, k) == IF k # 0 /\ ch[k] = "alive" THEN [ch EXCEPT ![k] = "killed"] ELSE ch

\* stop_session: the entry of the id, if any, is removed and its child killed
StopSession(id) ==
    /\ sessions[id] # 0
    /\ child' = Kill(child, sessions[id])
    /\ sessions' = [sessions EXCEPT ![id] = 0]
    /\ UNCHANGED <<batchVars, agentVars, cmdVars, fileVars, lifeVars, cfgVars, moreVars, termPc, termId, stopAllPc>>

\* the children of the sessions drain() yields
Drained(map) == {map[i] : i \in SessionIds} \ {0}

\* stop_all (called once, by the shutdown): under the lock the map is
\* drained and the child of every session it held is killed
StopAll ==
    /\ stopAllPc = "idle"
    /\ child' = [k \in TermTasks |->
                   IF k \in Drained(sessions) /\ child[k] = "alive"
                   THEN "killed" ELSE child[k]]
    /\ sessions' = [i \in SessionIds |-> 0]
    /\ stopAllPc' = "returned"
    /\ UNCHANGED <<batchVars, agentVars, cmdVars, fileVars, lifeVars, cfgVars, moreVars, termPc, termId>>

NextTerm ==
    \/ \E k \in TermTasks : TermSpawn(k)
    \/ \E k \in TermTasks : TermInsert(k)
    \/ \E id \in SessionIds : StopSession(id)
    \/ StopAll


\* ===================================================== config.rs (SpecCfg)
\* impl Default for Config
DefaultConfig ==
    [server_url |-> "",
     auto_start |-> TRUE,
     screenshot_interval |-> DefaultScreenshotInterval,
     activity_log_interval |-> DefaultActivityLogInterval,
     keystroke_buffer_size |-> DefaultKeystrokeBufferSize,
     heartbeat_interval |-> DefaultHeartbeatInterval,
     process_interval |-> DefaultProcessInterval,
     clipboard_interval |-> DefaultClipboardInterval,
     admin_password_hash |-> None,
     schedule |-> None]

\* the fields of Config that ServerConfig does not have
OtherFields ==
    {"server_url", "auto_start", "heartbeat_interval", "process_interval",
     "clipboard_interval", "admin_password_hash", "schedule"}

\* the configurations the agent starts with: the defaults, with or without
\* a server address, an admin password and a changed heartbeat
\* src/agent-rust/src/config.rs:123-131 (Config::load)
StartConfigs ==
    {[DefaultConfig EXCEPT !.server_url = u, !.admin_password_hash = h,
                           !.heartbeat_interval = b] :
        u \in {"", "https://server"}, h \in {None, Some("hash")},
        b \in {DefaultHeartbeatInterval, DefaultHeartbeatInterval + 1}}

\* Option<u64> / Option<usize> values a server sends
\* src/agent-rust/src/config.rs:271-275 (struct ServerConfig (Option<u64>, Option<usize>))
OptValues == {None, Some(1), Some(DefaultScreenshotInterval + 1)}
\* struct ServerConfig
\* src/agent-rust/src/config.rs:268-275 (struct ServerConfig)
ServerConfigs ==
    [screenshot_interval : OptValues,
     activity_log_interval : OptValues,
     keystroke_buffer_size : OptValues]

NoServerConfig ==
    [screenshot_interval |-> None, activity_log_interval |-> None,
     keystroke_buffer_size |-> None]

\* "if let Some(x) = server_config.f { self.f = x; }"
IfSome(opt, old) == IF opt # None THEN opt[1] ELSE old

\* Config::update_from_server
\* (a bug: a field the server left out goes back to its default)
update_from_server_or_default(self, sc) ==
    [self EXCEPT
       !.screenshot_interval = IfSome(sc.screenshot_interval, DefaultScreenshotInterval),
       !.activity_log_interval = IfSome(sc.activity_log_interval, DefaultActivityLogInterval),
       !.keystroke_buffer_size = IfSome(sc.keystroke_buffer_size, DefaultKeystrokeBufferSize)]
update_from_server(self, sc) ==
    [self EXCEPT
       !.screenshot_interval = IfSome(sc.screenshot_interval, @),
       !.activity_log_interval = IfSome(sc.activity_log_interval, @),
       !.keystroke_buffer_size = IfSome(sc.keystroke_buffer_size, @)]

InitCfg ==
    /\ config \in StartConfigs
    /\ server_config = NoServerConfig
    /\ cfgPrev = config

\* the configuration as the other specifications keep it
CfgIdle ==
    /\ config = DefaultConfig
    /\ server_config = NoServerConfig
    /\ cfgPrev = config

\* the server pushes a configuration and update_from_server is applied
UpdateFromServer ==
    /\ \E sc \in ServerConfigs :
         /\ server_config' = sc
         /\ config' = update_from_server(config, sc)
    /\ cfgPrev' = config
    /\ UNCHANGED <<batchVars, agentVars, cmdVars, fileVars, termVars, lifeVars, moreVars>>

NextCfg ==
    \/ UpdateFromServer

\* ============ the periodic producers (SpecProd): process_monitor.rs,
\* ============ screen_capture.rs (periodic capture), clipboard.rs
PeriodicServices == {"process_monitor", "screen_capture", "clipboard"}

\* What one turn of the loop meets.  process_monitor: refresh_processes and
\* collect_processes return no Result, the send does.  screen_capture:
\* capture_and_send_screenshot returns Err on Screen::all, no screen,
\* capture, encoding ("os_err") or on the send.  clipboard: get_text fails
\* ("os_err"), the text is the last one or empty ("unchanged"), or it is sent.
CycleOutcomes(s) ==
    IF s = "process_monitor" THEN {"ok", "send_err"}
    ELSE IF s = "screen_capture" THEN {"ok", "os_err", "send_err"}
    ELSE {"ok", "os_err", "send_err", "unchanged"}
CycleFailures == {"os_err", "send_err"}

\* the sleep at the end of a turn, in milliseconds
PollInterval(s) ==
    IF s = "process_monitor" THEN ProcessPollMs
    ELSE IF s = "screen_capture" THEN config.screenshot_interval
    ELSE ClipboardPollMs

\* where the task goes after its turn: every arm of the error handling is a
\* warn! line and the loop body runs on to its sleep
\* (a bug: the task leaves the loop on a failure)
AfterCycleBreakOnError(o) == IF o \in CycleFailures THEN "done" ELSE "sleep"
AfterCycle(o) == "sleep"

\* the service after new()
ProdStart ==
    /\ pRunning = FALSE
    /\ pHandle = None
    /\ pCall = "idle"
    /\ pPc = "none"
    /\ pSleep = 0
    /\ pCycles = 0
    /\ pLast = "none"
    /\ pSent = 0

ProdIdle ==
    /\ pSvc = "process_monitor"
    /\ ProdStart

InitProd ==
    /\ pSvc \in PeriodicServices
    /\ ProdStart

\* start(): "if *self.is_running.read().await { return; }"
ProdStartCheck ==
    /\ pCall = "idle"
    /\ pCall' = IF pRunning THEN "idle" ELSE "start_set"
    /\ UNCHANGED <<oldVars, notProd, pSvc, pRunning, pHandle, pPc, pSleep, pCycles, pLast, pSent>>

\* "*self.is_running.write().await = true;"
ProdStartSet ==
    /\ pCall = "start_set"
    /\ pRunning' = TRUE
    /\ pCall' = "start_spawn"
    /\ UNCHANGED <<oldVars, notProd, pSvc, pHandle, pPc, pSleep, pCycles, pLast, pSent>>

\* tokio::spawn of the loop task and the store of its handle; the clipboard
\* task begins with ArboardClipboard::new()
ProdStartSpawn ==
    /\ pCall = "start_spawn"
    /\ pPc' = IF pSvc = "clipboard" THEN "init" ELSE "top"
    /\ pHandle' = Some(<<>>)
    /\ pCall' = "idle"
    /\ UNCHANGED <<oldVars, notProd, pSvc, pRunning, pSleep, pCycles, pLast, pSent>>

\* clipboard.rs:48-55: Err of ArboardClipboard::new() is logged and the task
\* returns before its loop
ProdClipboardInit(ok) ==
    /\ pPc = "init"
    /\ pPc' = IF ok THEN "top" ELSE "failed"
    /\ UNCHANGED <<oldVars, notProd, pSvc, pRunning, pHandle, pCall, pSleep, pCycles, pLast, pSent>>

\* "if !*is_running.read().await { break; }"
ProdLoopTop ==
    /\ pPc = "top"
    /\ pPc' = IF pRunning THEN "work" ELSE "done"
    /\ UNCHANGED <<oldVars, notProd, pSvc, pRunning, pHandle, pCall, pSleep, pCycles, pLast, pSent>>

\* the body of the loop up to its sleep
ProdCycle(o) ==
    /\ pPc = "work"
    /\ pCycles < MaxCycles
    /\ o \in CycleOutcomes(pSvc)
    /\ pCycles' = pCycles + 1
    /\ pLast' = o
    /\ pSent' = IF o = "ok" THEN pSent + 1 ELSE pSent
    /\ pPc' = AfterCycle(o)
    /\ pSleep' = IF AfterCycle(o) = "sleep" THEN PollInterval(pSvc) ELSE 0
    /\ UNCHANGED <<oldVars, notProd, pSvc, pRunning, pHandle, pCall>>

\* tokio::time::sleep(..).await returns
ProdWake ==
    /\ pPc = "sleep"
    /\ pPc' = "top"
    /\ pSleep' = 0
    /\ UNCHANGED <<oldVars, notProd, pSvc, pRunning, pHandle, pCall, pCycles, pLast, pSent>>

\* stop(): "*self.is_running.write().await = false;"
ProdStopSet ==
    /\ pCall = "idle"
    /\ pRunning' = FALSE
    /\ pCall' = "stop_abort"
    /\ UNCHANGED <<oldVars, notProd, pSvc, pHandle, pPc, pSleep, pCycles, pLast, pSent>>

\* "if let Some(handle) = self.monitor_handle.write().await.take()
\*  { handle.abort(); }": the task ends at the await it is at
ProdStopAbort ==
    /\ pCall = "stop_abort"
    /\ pHandle' = None
    /\ pPc' = IF pHandle # None /\ pPc \in {"init", "top", "work", "sleep"}
                THEN "aborted" ELSE pPc
    /\ pSleep' = IF pHandle # None THEN 0 ELSE pSleep
    /\ pCall' = "idle"
    /\ UNCHANGED <<oldVars, notProd, pSvc, pRunning, pCycles, pLast, pSent>>

NextProd ==
    \/ ProdStartCheck
    \/ ProdStartSet
    \/ ProdStartSpawn
    \/ \E ok \in BOOLEAN : ProdClipboardInit(ok)
    \/ ProdLoopTop
    \/ \E o \in {"ok", "os_err", "send_err", "unchanged"} : ProdCycle(o)
    \/ ProdWake
    \/ ProdStopSet
    \/ ProdStopAbort

\* ============ the keylogger over start(), stop() and start() again (SpecKl):
\* ============ keylogger.rs, its calls made one after the other
\* The n-th start() that gets past its check spawns listener thread n,
\* processing task n with the receiver of channel n, and flush task n.
\* src/agent-rust/src/services/keylogger.rs:57-119 (Keylogger::start (the threads and tasks one
\*   call spawns))
KlGens == 1..MaxStarts

RECURSIVE Count(_, _)
Count(seq, x) ==
    IF seq = <<>> THEN 0
    ELSE (IF Head(seq) = x THEN 1 ELSE 0) + Count(Tail(seq), x)

\* the times key press i is in the keystroke data, buffered or sent
Recorded(i) == Count(kBuf \o kSent, i)

\* the keylogger after new()
InitKl ==
    /\ kRunning = FALSE
    /\ kCall = "idle"
    /\ kStarts = 0
    /\ kListeners = {}
    /\ kProc = [g \in KlGens |-> "none"]
    /\ kQueue = [g \in KlGens |-> <<>>]
    /\ kFlush = [g \in KlGens |-> "none"]
    /\ kFlushHandle = 0
    /\ kPressed = 0
    /\ kBuf = <<>>
    /\ kSent = <<>>
    /\ kAtStop = {}
    /\ kSeenKey = {}


\* start(): "if *self.is_running.read().await { return; }"
KlStartCheck ==
    /\ kCall = "idle"
    /\ kRunning \/ kStarts < MaxStarts
    /\ kCall' = IF kRunning THEN "idle" ELSE "start_set"
    /\ UNCHANGED <<oldVars, notKl, kRunning, kStarts, kListeners, kProc, kQueue, kFlush,
                   kFlushHandle, kPressed, kBuf, kSent, kAtStop, kSeenKey>>

\* "*self.is_running.write().await = true;"
KlStartSet ==
    /\ kCall = "start_set"
    /\ kRunning' = TRUE
    /\ kCall' = "start_spawn"
    /\ UNCHANGED <<oldVars, notKl, kStarts, kListeners, kProc, kQueue, kFlush,
                   kFlushHandle, kPressed, kBuf, kSent, kAtStop, kSeenKey>>

\* the channel, std::thread::spawn of the listener, tokio::spawn of the
\* processing task and of the flush task, the store of flush_handle
KlStartSpawn ==
    /\ kCall = "start_spawn"
    /\ LET g == kStarts + 1 IN
       /\ kStarts' = g
       /\ kListeners' = kListeners \cup {g}
       /\ kProc' = [kProc EXCEPT ![g] = "top"]
       /\ kFlush' = [kFlush EXCEPT ![g] = "top"]
       /\ kFlushHandle' = g
    /\ kCall' = "idle"
    /\ UNCHANGED <<oldVars, notKl, kRunning, kQueue, kPressed, kBuf, kSent, kAtStop, kSeenKey>>

\* a key is pressed: every live listener thread sends a KeyEvent down its
\* channel; the send fails when the processing task has ended
KlKeyPress ==
    /\ kPressed < MaxPresses
    /\ kListeners # {}
    /\ kPressed' = kPressed + 1
    /\ kQueue' = [g \in KlGens |->
                    IF g \in kListeners /\ kProc[g] \in {"top", "recv"}
                    THEN Append(kQueue[g], kPressed + 1)
                    ELSE kQueue[g]]
    \* the thread goes on listening (keylogger.rs:66-73): the Err of a send to a
    \* dropped receiver is discarded with "let _ ="
    /\ kListeners' = kListeners
    /\ kSeenKey' = kSeenKey \cup (kAtStop \cap kListeners)
    /\ UNCHANGED <<oldVars, notKl, kRunning, kCall, kStarts, kProc, kFlush, kFlushHandle,
                   kBuf, kSent, kAtStop>>

\* rdev::listen returns Err (keylogger.rs:66, 74-76): the thread logs and ends
KlListenError(g) ==
    /\ g \in kListeners
    /\ kListeners' = kListeners \ {g}
    /\ UNCHANGED <<oldVars, notKl, kRunning, kCall, kStarts, kProc, kQueue, kFlush,
                   kFlushHandle, kPressed, kBuf, kSent, kAtStop, kSeenKey>>

\* the processing task: "while *is_running_proc.read().await"
KlProcTop(g) ==
    /\ kProc[g] = "top"
    /\ kProc' = [kProc EXCEPT ![g] = IF kRunning THEN "recv" ELSE "done"]
    /\ UNCHANGED <<oldVars, notKl, kRunning, kCall, kStarts, kListeners, kQueue, kFlush,
                   kFlushHandle, kPressed, kBuf, kSent, kAtStop, kSeenKey>>

\* "if let Some(event) = rx.recv().await { process_key_event(..) }": the key
\* joins the current stroke or opens a new one
KlProcRecv(g) ==
    /\ kProc[g] = "recv"
    /\ kQueue[g] # <<>>
    /\ kBuf' = Append(kBuf, Head(kQueue[g]))
    /\ kQueue' = [kQueue EXCEPT ![g] = Tail(@)]
    /\ kProc' = [kProc EXCEPT ![g] = "top"]
    /\ UNCHANGED <<oldVars, notKl, kRunning, kCall, kStarts, kListeners, kFlush,
                   kFlushHandle, kPressed, kSent, kAtStop, kSeenKey>>

\* the flush task: "if !*is_running_flush.read().await { break; }"
KlFlushTop(g) ==
    /\ kFlush[g] = "top"
    /\ kFlush' = [kFlush EXCEPT ![g] = IF kRunning THEN "sleep" ELSE "done"]
    /\ UNCHANGED <<oldVars, notKl, kRunning, kCall, kStarts, kListeners, kProc, kQueue,
                   kFlushHandle, kPressed, kBuf, kSent, kAtStop, kSeenKey>>

\* its sleep ends and flush_buffer hands what is buffered to the socket
KlFlushTick(g) ==
    /\ kFlush[g] = "sleep"
    /\ kSent' = kSent \o kBuf
    /\ kBuf' = <<>>
    /\ kFlush' = [kFlush EXCEPT ![g] = "top"]
    /\ UNCHANGED <<oldVars, notKl, kRunning, kCall, kStarts, kListeners, kProc, kQueue,
                   kFlushHandle, kPressed, kAtStop, kSeenKey>>

\* stop(): "*self.is_running.write().await = false;"
KlStopSet ==
    /\ kCall = "idle"
    /\ kRunning' = FALSE
    /\ kCall' = "stop_flush"
    /\ UNCHANGED <<oldVars, notKl, kStarts, kListeners, kProc, kQueue, kFlush,
                   kFlushHandle, kPressed, kBuf, kSent, kAtStop, kSeenKey>>

\* "Self::flush_buffer(..).await"
KlStopFlush ==
    /\ kCall = "stop_flush"
    /\ kSent' = kSent \o kBuf
    /\ kBuf' = <<>>
    /\ kCall' = "stop_abort"
    /\ UNCHANGED <<oldVars, notKl, kRunning, kStarts, kListeners, kProc, kQueue, kFlush,
                   kFlushHandle, kPressed, kAtStop, kSeenKey>>

\* "if let Some(handle) = self.flush_handle.write().await.take()
\*  { handle.abort(); }" and the return of stop(); nothing is done about the
\* listener thread or the processing task
KlStopAbort ==
    /\ kCall = "stop_abort"
    /\ kFlush' = [g \in KlGens |->
                    IF g = kFlushHandle /\ kFlush[g] \in {"top", "sleep"}
                    THEN "aborted" ELSE kFlush[g]]
    /\ kFlushHandle' = 0
    /\ kAtStop' = kListeners
    /\ kCall' = "idle"
    /\ UNCHANGED <<oldVars, notKl, kRunning, kStarts, kListeners, kProc, kQueue,
                   kPressed, kBuf, kSent, kSeenKey>>

NextKl ==
    \/ KlStartCheck
    \/ KlStartSet
    \/ KlStartSpawn
    \/ KlKeyPress
    \/ \E g \in KlGens : KlListenError(g)
    \/ \E g \in KlGens : KlProcTop(g)
    \/ \E g \in KlGens : KlProcRecv(g)
    \/ \E g \in KlGens : KlFlushTop(g)
    \/ \E g \in KlGens : KlFlushTick(g)
    \/ KlStopSet
    \/ KlStopFlush
    \/ KlStopAbort

\* ======== Config as JSON (SpecSer): the serde derives of config.rs:15-76
\* A JSON value: null, or a value (a number, a string, a bool, an array or
\* an object, written as the TLA+ value that stands for it; an object is a
\* function from its keys).
\* src/agent-rust/src/config.rs:15-57 (#[derive(Serialize)] for Config (a field value as JSON))
JOf(x) == [t |-> "value", v |-> x]

\* Result<T, E>
\* src/agent-rust/src/config.rs:124 (Result<Self, ConfigError> (Ok))
Ok(x) == [ok |-> TRUE, v |-> x]
\* src/agent-rust/src/config.rs:277-282 (ConfigError (Err of a Result))
Err == [ok |-> FALSE]

OptionFields == {"admin_password_hash", "schedule"}

\* #[serde(rename_all = "camelCase")] on Config
CamelCase ==
    [server_url |-> "serverUrl",
     auto_start |-> "autoStart",
     screenshot_interval |-> "screenshotInterval",
     activity_log_interval |-> "activityLogInterval",
     keystroke_buffer_size |-> "keystrokeBufferSize",
     heartbeat_interval |-> "heartbeatInterval",
     process_interval |-> "processInterval",
     clipboard_interval |-> "clipboardInterval",
     admin_password_hash |-> "adminPasswordHash",
     schedule |-> "schedule"]

\* #[serde(rename_all = "camelCase")] on ScheduleConfig
ScheduleCamelCase ==
    [enabled |-> "enabled", days |-> "days", start_time |-> "startTime",
     end_time |-> "endTime", timezone |-> "timezone"]

\* a ScheduleConfig
\* src/agent-rust/src/config.rs:62-77 (struct ScheduleConfig)
ASchedule ==
    [enabled |-> TRUE, days |-> <<1, 5>>, start_time |-> "09:00",
     end_time |-> "17:00", timezone |-> "UTC"]

\* Serialize for ScheduleConfig: an object with a key for every field
ScheduleToJson(s) ==
    [k \in {ScheduleCamelCase[f] : f \in (DOMAIN ScheduleCamelCase)} |->
        JOf(s[CHOOSE f \in (DOMAIN ScheduleCamelCase) : ScheduleCamelCase[f] = k])]

\* Deserialize for ScheduleConfig: every field is required and none takes null
ScheduleFromJson(o) ==
    IF \A f \in (DOMAIN ScheduleCamelCase) :
         ScheduleCamelCase[f] \in DOMAIN o /\ o[ScheduleCamelCase[f]].t # "null"
    THEN Ok([f \in (DOMAIN ScheduleCamelCase) |-> o[ScheduleCamelCase[f]].v])
    ELSE Err

\* the key Deserialize reads a field from (Serialize writes it under CamelCase[f])
\* (a bug: Deserialize without the rename, on the names of the Rust fields)
DeKeyNotRenamed(f) == f
DeKey(f) == CamelCase[f]

\* serde_json::to_string(&config): an object with a key for every field.
\* Serialize of one field: an Option is null or its content, a ScheduleConfig
\* an object.
to_string(cfg) ==
    LET FieldToJson(f, v) ==
            IF f \in OptionFields
            THEN IF v = None THEN [t |-> "null"]
                 ELSE IF f = "schedule" THEN JOf(ScheduleToJson(v[1])) ELSE JOf(v[1])
            ELSE JOf(v)
    IN [k \in {CamelCase[f] : f \in (DOMAIN DefaultConfig)} |->
           LET f == CHOOSE g \in (DOMAIN DefaultConfig) : CamelCase[g] = k
           IN FieldToJson(f, cfg[f])]

\* serde_json::from_str::<Config>(&json).
\* Deserialize of one field that is in the object: Err where the value does
\* not fit the type.  A field the object does not have takes the value of
\* its #[serde(default)] / #[serde(default = "default_...")].
from_str(o) ==
    LET FieldFromJson(f, jv) ==
            IF f \in OptionFields
            THEN IF jv.t = "null" THEN Ok(None)
                 ELSE IF f = "schedule"
                      THEN (IF ScheduleFromJson(jv.v).ok
                            THEN Ok(Some(ScheduleFromJson(jv.v).v)) ELSE Err)
                      ELSE Ok(Some(jv.v))
            ELSE IF jv.t = "null" THEN Err ELSE Ok(jv.v)
        c == [f \in (DOMAIN DefaultConfig) |->
                 IF DeKey(f) \in DOMAIN o THEN FieldFromJson(f, o[DeKey(f)])
                 ELSE Ok(DefaultConfig[f])]
    IN IF \E f \in (DOMAIN DefaultConfig) : ~c[f].ok THEN Err
       ELSE Ok([f \in (DOMAIN DefaultConfig) |-> c[f].v])

\* the configurations that are serialized
\* src/agent-rust/src/config.rs:17-57 (struct Config)
SerConfigs ==
    {[DefaultConfig EXCEPT !.server_url = u, !.auto_start = a,
                           !.screenshot_interval = i,
                           !.keystroke_buffer_size = b,
                           !.admin_password_hash = h, !.schedule = s] :
        u \in {"", "https://server"}, a \in BOOLEAN,
        i \in {DefaultScreenshotInterval, 1},
        b \in {DefaultKeystrokeBufferSize, 0},
        h \in {None, Some("hash")}, s \in {None, Some(ASchedule)}}

SerIdle ==
    /\ json = None
    /\ parsed = None

InitSer ==
    /\ config \in SerConfigs
    /\ server_config = NoServerConfig
    /\ cfgPrev = config
    /\ SerIdle

\* let json = serde_json::to_string(&config).unwrap();
Serialize ==
    /\ json = None
    /\ json' = Some(to_string(config))
    /\ UNCHANGED <<oldVars, notSer, parsed>>

\* let parsed: Config = serde_json::from_str(&json)
Parse ==
    /\ json # None
    /\ parsed = None
    /\ parsed' = Some(from_str(json[1]))
    /\ UNCHANGED <<oldVars, notSer, json>>

NextSer ==
    \/ Serialize
    \/ Parse

\* ============================ utils/password.rs (SpecPw)
\* A &str is the sequence of its bytes.
\* bit i of the u8 n
Bit(n, i) == (n \div (2 ^ i)) % 2

\* "if a.len() != b.len() { return false; }"
\* (a bug: no length check, the zip stops at the shorter string)
LengthsDifferUnchecked(a, b) == FALSE
LengthsDiffer(a, b) == Len(a) # Len(b)

\* "for (x, y) in a_bytes.iter().zip(b_bytes.iter()) { result |= x ^ y; }"
\* result after the pairs the zip gives, starting from 0u8: a bit of it is
\* set exactly when it is set in x ^ y for one of the pairs
ZipFold(a, b) ==
    LET n == IF Len(a) < Len(b) THEN Len(a) ELSE Len(b)
        \* the u8 whose bit i is bits[i]
        FromBits(bits) ==
            bits[0] + 2 * bits[1] + 4 * bits[2] + 8 * bits[3]
              + 16 * bits[4] + 32 * bits[5] + 64 * bits[6] + 128 * bits[7]
        \* x ^ y and x | y on u8
        BitXor(x, y) == FromBits([i \in 0..7 |-> (Bit(x, i) + Bit(y, i)) % 2])
        BitOr(x, y) ==
            FromBits([i \in 0..7 |-> IF Bit(x, i) + Bit(y, i) > 0 THEN 1 ELSE 0])
    IN
    FromBits([k \in 0..7 |->
                IF \E i \in 1..n : Bit(BitOr(0, BitXor(a[i], b[i])), k) = 1
                THEN 1 ELSE 0])

constant_time_compare(a, b) ==
    IF LengthsDiffer(a, b) THEN FALSE
    ELSE ZipFold(a, b) = 0

\* the byte strings of length n over the bytes of s
\* src/agent-rust/src/utils/password.rs:34 (constant_time_compare (a: &str, b: &str))
RECURSIVE StringsOfLen(_, _)
StringsOfLen(s, n) ==
    IF n = 0 THEN {<<>>}
    ELSE {Append(w, c) : w \in StringsOfLen(s, n - 1), c \in s}

\* the strings of up to MaxLen bytes over 'a', 'b' and a byte with the high bit set
\* src/agent-rust/src/utils/password.rs:93-98 (tests::test_constant_time_compare (the strings))
CompareInputs == UNION {StringsOfLen({97, 98, 225}, k) : k \in 0..MaxLen}

\* b"netwatch-agent-salt"
SALT == <<110, 101, 116, 119, 97, 116, 99, 104, 45, 97, 103, 101, 110, 116,
          45, 115, 97, 108, 116>>

RECURSIVE SumBytes(_)
SumBytes(s) == IF s = <<>> THEN 0 ELSE (Head(s) + 31 * SumBytes(Tail(s))) % 65521

\* pbkdf2::<Hmac<Sha256>>(password, SALT, ITERATIONS, &mut hash): the model
\* has a stand-in for the key derivation, a function of the password and
\* the salt that fills the HASH_LENGTH bytes
Pbkdf2(password, salt) ==
    [i \in 1..HASH_LENGTH |->
        (SumBytes(password) * (i + 7) + (SumBytes(salt) % 251) + i * Len(password)) % 256]

\* hex::encode: two lower-case hexadecimal digits for each byte
HexEncode(bytes) ==
    [i \in 1..(2 * Len(bytes)) |->
        LET byte == bytes[(i + 1) \div 2]
            HexDigit(d) == IF d < 10 THEN 48 + d ELSE 87 + d IN
        IF i % 2 = 1 THEN HexDigit(byte \div 16) ELSE HexDigit(byte % 16)]

hash_password(password) == HexEncode(Pbkdf2(password, SALT))

\* (a bug: the password itself is compared with the stored hash)
verify_password_unhashed(password, hash) == constant_time_compare(password, hash)
verify_password(password, hash) ==
    constant_time_compare(hash_password(password), hash)

\* "test_password", "wrong_password" cut to a few bytes, and the empty password
\* src/agent-rust/src/utils/password.rs:75-82 (tests::test_verify_password (the passwords))
Passwords == {<<>>, <<116, 101, 115, 116>>, <<119, 114, 111, 110, 103>>, <<116, 101, 115, 115>>}

\* the stored hashes a password is verified against: the hash of a
\* password, such a hash with its first character replaced or without its
\* last, and a password stored as it is
\* src/agent-rust/src/utils/password.rs:29 (verify_password (hash: &str))
HashInputs ==
    LET Tampered(h) == [h EXCEPT ![1] = IF @ = 48 THEN 49 ELSE 48]
        Truncated(h) == SubSeq(h, 1, Len(h) - 1) IN
    {hash_password(q) : q \in Passwords}
      \cup {Tampered(hash_password(q)) : q \in Passwords}
      \cup {Truncated(hash_password(q)) : q \in Passwords}
      \cup Passwords

PwIdle ==
    /\ pwCall = "none"
    /\ pwA = <<>>
    /\ pwB = <<>>
    /\ pwRes = None

\* a call of constant_time_compare or of verify_password on its arguments
InitPw ==
    /\ pwCall \in {"constant_time_compare", "verify_password"}
    /\ pwA \in (IF pwCall = "constant_time_compare" THEN CompareInputs ELSE Passwords)
    /\ pwB \in (IF pwCall = "constant_time_compare" THEN CompareInputs ELSE HashInputs)
    /\ pwRes = None

ConstantTimeCompare ==
    /\ pwCall = "constant_time_compare"
    /\ pwRes = None
    /\ pwRes' = Some(constant_time_compare(pwA, pwB))
    /\ UNCHANGED <<oldVars, notPw, pwCall, pwA, pwB>>

VerifyPassword ==
    /\ pwCall = "verify_password"
    /\ pwRes = None
    /\ pwRes' = Some(verify_password(pwA, pwB))
    /\ UNCHANGED <<oldVars, notPw, pwCall, pwA, pwB>>

NextPw ==
    \/ ConstantTimeCompare
    \/ VerifyPassword

\* ============ the screen stream (SpecStream): screen_capture.rs:94-142 under
\* ============ the handlers of main.rs:267-290
\* Event n spawns handler task n; the stream task that a start_stream call
\* spawns carries the number of its handler task.
\* src/agent-rust/src/main.rs:267-290 (run_agent (the task each stream event spawns))
StreamIds == 1..MaxStreamEvents

\* the (quality, fps) payloads of the start events
\* src/agent-rust/src/main.rs:270 (on_start_screen_stream(move |(quality, fps)| ..))
StreamPayloads == {<<DefaultStreamQuality, DefaultStreamFps>>, <<DefaultStreamQuality + 1, 0>>}

\* a stream task that has not ended
StreamAlive(t) == sTask[t] \in {"top", "frame"}

\* the ScreenCapture after new(), no event received
InitStream ==
    /\ is_streaming = FALSE
    /\ stream_quality = DefaultStreamQuality
    /\ stream_fps = DefaultStreamFps
    /\ stream_handle = 0
    /\ sEvents = <<>>
    /\ sPayload = [h \in StreamIds |-> <<DefaultStreamQuality, DefaultStreamFps>>]
    /\ sPc = [h \in StreamIds |-> "none"]
    /\ sTask = [t \in StreamIds |-> "none"]


\* The server sends start-screen-stream or stop-screen-stream: the client
\* invokes the registered callback, which spawns a task that calls
\* start_stream(quality, fps) or stop_stream() (main.rs:270-287).  Both
\* calls begin with the first statement of stop_stream.
StreamEvent(kind, payload) ==
    /\ Len(sEvents) < MaxStreamEvents
    /\ LET h == Len(sEvents) + 1 IN
       /\ sEvents' = Append(sEvents, kind)
       /\ sPayload' = [sPayload EXCEPT ![h] = payload]
       /\ sPc' = [sPc EXCEPT ![h] = "clear"]
    /\ UNCHANGED <<oldVars, notStream, is_streaming, stream_quality, stream_fps,
                   stream_handle, sTask>>

\* stop_stream: "*self.is_streaming.write().await = false;"
StopStreamClear(h) ==
    /\ sPc[h] = "clear"
    /\ is_streaming' = FALSE
    /\ sPc' = [sPc EXCEPT ![h] = "take"]
    /\ UNCHANGED <<oldVars, notStream, stream_quality, stream_fps, stream_handle,
                   sEvents, sPayload, sTask>>

\* stop_stream: "if let Some(handle) = self.stream_handle.write().await.take()
\* { handle.abort(); }"; stop_stream() returns, and so does the handler of a
\* stop event
StopStreamTake(h) ==
    /\ sPc[h] = "take"
    /\ stream_handle' = 0
    /\ sTask' = [t \in StreamIds |->
                   IF t = stream_handle /\ StreamAlive(t) THEN "aborted" ELSE sTask[t]]
    /\ sPc' = [sPc EXCEPT ![h] = IF sEvents[h] = "start" THEN "params" ELSE "done"]
    /\ UNCHANGED <<oldVars, notStream, is_streaming, stream_quality, stream_fps,
                   sEvents, sPayload>>

\* start_stream: the writes of stream_quality and stream_fps
StartStreamParams(h) ==
    /\ sPc[h] = "params"
    /\ stream_quality' = sPayload[h][1]
    /\ stream_fps' = sPayload[h][2]
    /\ sPc' = [sPc EXCEPT ![h] = "set"]
    /\ UNCHANGED <<oldVars, notStream, is_streaming, stream_handle, sEvents, sPayload, sTask>>

\* start_stream: "*self.is_streaming.write().await = true;"
StartStreamSet(h) ==
    /\ sPc[h] = "set"
    /\ is_streaming' = TRUE
    /\ sPc' = [sPc EXCEPT ![h] = "spawn"]
    /\ UNCHANGED <<oldVars, notStream, stream_quality, stream_fps, stream_handle,
                   sEvents, sPayload, sTask>>

\* start_stream: "let handle = tokio::spawn(..)"
StartStreamSpawn(h) ==
    /\ sPc[h] = "spawn"
    /\ sTask' = [sTask EXCEPT ![h] = "top"]
    /\ sPc' = [sPc EXCEPT ![h] = "store"]
    /\ UNCHANGED <<oldVars, notStream, is_streaming, stream_quality, stream_fps,
                   stream_handle, sEvents, sPayload>>

\* start_stream: "*self.stream_handle.write().await = Some(handle);" over
\* whatever handle is stored
StartStreamStore(h) ==
    /\ sPc[h] = "store"
    /\ stream_handle' = h
    /\ sPc' = [sPc EXCEPT ![h] = "done"]
    /\ UNCHANGED <<oldVars, notStream, is_streaming, stream_quality, stream_fps,
                   sEvents, sPayload, sTask>>

\* the stream task: "if !*is_streaming.read().await { break; }"
StreamLoopTop(t) ==
    /\ sTask[t] = "top"
    /\ sTask' = [sTask EXCEPT ![t] = IF is_streaming THEN "frame" ELSE "done"]
    /\ UNCHANGED <<oldVars, notStream, is_streaming, stream_quality, stream_fps,
                   stream_handle, sEvents, sPayload, sPc>>

\* the stream task: a frame is captured and sent, or the failure is logged,
\* and the task sleeps 1000 / fps.max(1) ms
StreamFrame(t) ==
    /\ sTask[t] = "frame"
    /\ sTask' = [sTask EXCEPT ![t] = "top"]
    /\ UNCHANGED <<oldVars, notStream, is_streaming, stream_quality, stream_fps,
                   stream_handle, sEvents, sPayload, sPc>>

NextStream ==
    \/ \E kind \in {"start", "stop"}, payload \in StreamPayloads : StreamEvent(kind, payload)
    \/ \E h \in StreamIds : StopStreamClear(h)
    \/ \E h \in StreamIds : StopStreamTake(h)
    \/ \E h \in StreamIds : StartStreamParams(h)
    \/ \E h \in StreamIds : StartStreamSet(h)
    \/ \E h \in StreamIds : StartStreamSpawn(h)
    \/ \E h \in StreamIds : StartStreamStore(h)
    \/ \E t \in StreamIds : StreamLoopTop(t)
    \/ \E t \in StreamIds : StreamFrame(t)

\* ================ the activity tracker's clock (SpecClock): activity_tracker.rs
\* src/agent-rust/src/services/activity_tracker.rs:435-440 (ActivityTracker::timestamp)
\* The values Self::timestamp() can return: milliseconds of SystemTime::now()
\* since the epoch, which the system may set forward or back between two
\* readings.
Timestamps == {0, MinDurationMs, MinDurationMs + 1, 2 * MinDurationMs + 2}

\* "now - current.start_time" on u64 without a panic: the difference modulo
\* 2^64.  The u64 it stands for is v where wrapped is FALSE and 2^64 + v
\* where it is TRUE.
wrapping_sub(a, b) == [wrapped |-> a < b, v |-> a - b]


\* the tracker after new()
InitClock ==
    /\ overflow_checks \in BOOLEAN
    /\ current_activity = None
    /\ activity_buffer = <<>>
    /\ ckReads = 0
    /\ ckPanicked = FALSE

ClockIdle ==
    /\ overflow_checks = FALSE
    /\ current_activity = None
    /\ activity_buffer = <<>>
    /\ ckReads = 0
    /\ ckPanicked = FALSE

\* "if duration > 1000" on the u64 a wrapping_sub stands for is
\* "duration.wrapped \/ LongEnough(duration.v)": 2^64 + v is above 1000 for
\* every v here.
\* track_active_window under the write guard of current_activity: same is
\* the comparison with the window read, now the reading of line 223, start
\* the reading of line 250.  With overflow-checks a subtraction below zero
\* panics: the task ends there and the guard is dropped.
track_active_window(same, now, start) ==
    /\ ~ckPanicked
    /\ ckReads < MaxReadings
    /\ IF current_activity # None /\ same
       THEN UNCHANGED <<current_activity, activity_buffer, ckReads, ckPanicked>>
       ELSE IF current_activity = None
       THEN /\ current_activity' = Some([start_time |-> start])
            /\ ckReads' = ckReads + 1
            /\ UNCHANGED <<activity_buffer, ckPanicked>>
       ELSE LET cur == current_activity[1]
                duration == wrapping_sub(now, cur.start_time) IN
            IF duration.wrapped /\ overflow_checks
            THEN /\ ckPanicked' = TRUE
                 /\ ckReads' = ckReads + 1
                 /\ UNCHANGED <<current_activity, activity_buffer>>
            ELSE /\ activity_buffer' =
                      IF (duration.wrapped \/ LongEnough(duration.v))
                      THEN Append(activity_buffer,
                                  [start_time |-> cur.start_time, end_time |-> now,
                                   duration |-> duration])
                      ELSE activity_buffer
                 /\ current_activity' = Some([start_time |-> start])
                 /\ ckReads' = ckReads + 2
                 /\ UNCHANGED ckPanicked
    /\ UNCHANGED <<oldVars, notClock, overflow_checks>>

\* commit_current_activity, called by stop(): "activity.take()", then the
\* same subtraction and test
commit_current_activity(now) ==
    /\ ~ckPanicked
    /\ ckReads < MaxReadings
    /\ current_activity # None
    /\ LET cur == current_activity[1]
           duration == wrapping_sub(now, cur.start_time) IN
       /\ current_activity' = None
       /\ ckReads' = ckReads + 1
       /\ ckPanicked' = (duration.wrapped /\ overflow_checks)
       /\ activity_buffer' =
            IF ~ckPanicked' /\ (duration.wrapped \/ LongEnough(duration.v))
            THEN Append(activity_buffer,
                                  [start_time |-> cur.start_time, end_time |-> now,
                                   duration |-> duration])
            ELSE activity_buffer
    /\ UNCHANGED <<oldVars, notClock, overflow_checks>>

NextClock ==
    \/ \E same \in BOOLEAN, now \in Timestamps, start \in Timestamps :
         track_active_window(same, now, start)
    \/ \E now \in Timestamps : commit_current_activity(now)

\* ====================== the clipboard monitor (SpecClip): clipboard.rs
\* src/agent-rust/src/services/clipboard.rs:94-96 (check_clipboard: cb.get_text())
\* the texts on the clipboard: none, and two that differ
ClipTexts == {"", "a", "b"}

\* the Clipboard after new(), the system clipboard empty
InitClip ==
    /\ os_clipboard = ""
    /\ last_content = ""
    /\ cbRunning = FALSE
    /\ monitor_handle = 0
    /\ cbStartPc = [h \in Starters |-> "idle"]
    /\ cbStopPc = "idle"
    /\ cbPc = [h \in Starters |-> "none"]
    /\ cbRead = [h \in Starters |-> ""]
    /\ cbCopies = 0
    /\ cbAttempts = 0

\* the user copies another text
UserCopy(t) ==
    /\ cbCopies < MaxCopies
    /\ t # os_clipboard
    /\ os_clipboard' = t
    /\ cbCopies' = cbCopies + 1
    /\ cbAttempts' = 0
    /\ UNCHANGED <<oldVars, notClip, clockVars, last_content, cbRunning, monitor_handle,
                   cbStartPc, cbStopPc, cbPc, cbRead>>

\* start(): "if *self.is_running.read().await { return; }"
ClipStartCheck(h) ==
    /\ cbStartPc[h] = "idle"
    /\ \A g \in Starters : g < h => cbStartPc[g] # "idle"
    /\ cbStartPc' = [cbStartPc EXCEPT ![h] = IF cbRunning THEN "returned" ELSE "set"]
    /\ UNCHANGED <<oldVars, notClip, clockVars, os_clipboard, last_content, cbRunning,
                   monitor_handle, cbStopPc, cbPc, cbRead, cbCopies, cbAttempts>>

\* "*self.is_running.write().await = true;"
ClipStartSet(h) ==
    /\ cbStartPc[h] = "set"
    /\ cbRunning' = TRUE
    /\ cbStartPc' = [cbStartPc EXCEPT ![h] = "spawn"]
    /\ UNCHANGED <<oldVars, notClip, clockVars, os_clipboard, last_content,
                   monitor_handle, cbStopPc, cbPc, cbRead, cbCopies, cbAttempts>>

\* "let handle = tokio::spawn(..); *self.monitor_handle.write().await =
\* Some(handle);": a handle that was stored is dropped, its task goes on
ClipStartSpawn(h) ==
    /\ cbStartPc[h] = "spawn"
    /\ cbPc' = [cbPc EXCEPT ![h] = "init"]
    /\ monitor_handle' = h
    /\ cbStartPc' = [cbStartPc EXCEPT ![h] = "returned"]
    /\ UNCHANGED <<oldVars, notClip, clockVars, os_clipboard, last_content, cbRunning,
                   cbStopPc, cbRead, cbCopies, cbAttempts>>

\* the task: "match ArboardClipboard::new() { Ok(cb) => cb, Err(e) => {
\* warn!(..); return; } }", then the top of its loop
ClipInit(h, ok) ==
    /\ cbPc[h] = "init"
    /\ cbPc' = [cbPc EXCEPT ![h] = IF ok THEN LoopTop(cbRunning, "read") ELSE "done"]
    /\ UNCHANGED <<oldVars, notClip, clockVars, os_clipboard, last_content, cbRunning,
                   monitor_handle, cbStartPc, cbStopPc, cbRead, cbCopies, cbAttempts>>

\* check_clipboard: "let content = { .. cb.get_text().ok() };
\* if let Some(text) = content": nothing more is done on an Err
ClipGetText(h, ok) ==
    /\ cbPc[h] = "read"
    /\ cbRead' = [cbRead EXCEPT ![h] = IF ok THEN os_clipboard ELSE @]
    /\ cbPc' = [cbPc EXCEPT ![h] = IF ok THEN "got" ELSE "sleep"]
    /\ UNCHANGED <<oldVars, notClip, clockVars, os_clipboard, last_content, cbRunning,
                   monitor_handle, cbStartPc, cbStopPc, cbCopies, cbAttempts>>

\* "let last = last_content.read().await;
\*  if text != *last && !text.is_empty() { drop(last);"
ClipCompare(h) ==
    /\ cbPc[h] = "got"
    /\ cbPc' = [cbPc EXCEPT ![h] =
                  IF cbRead[h] # last_content /\ cbRead[h] # "" THEN "update" ELSE "sleep"]
    /\ UNCHANGED <<oldVars, notClip, clockVars, os_clipboard, last_content, cbRunning,
                   monitor_handle, cbStartPc, cbStopPc, cbRead, cbCopies, cbAttempts>>

\* "*last_content.write().await = text.clone();"
ClipUpdate(h) ==
    /\ cbPc[h] = "update"
    /\ last_content' = cbRead[h]
    /\ cbPc' = [cbPc EXCEPT ![h] = "send"]
    /\ UNCHANGED <<oldVars, notClip, clockVars, os_clipboard, cbRunning,
                   monitor_handle, cbStartPc, cbStopPc, cbRead, cbCopies, cbAttempts>>

\* "if let Err(e) = socket.send_clipboard(text.clone(), content_type).await
\* { warn!(..) } else { debug!(..) }": ok is the result of the send
ClipSend(h, ok) ==
    /\ cbPc[h] = "send"
    /\ cbAttempts' = IF cbRead[h] = os_clipboard THEN cbAttempts + 1 ELSE cbAttempts
    /\ cbPc' = [cbPc EXCEPT ![h] = "sleep"]
    /\ UNCHANGED <<oldVars, notClip, clockVars, os_clipboard, last_content, cbRunning,
                   monitor_handle, cbStartPc, cbStopPc, cbRead, cbCopies>>

\* "tokio::time::sleep(Duration::from_secs(2)).await;", then the top of the loop
ClipWake(h) ==
    /\ cbPc[h] = "sleep"
    /\ cbPc' = [cbPc EXCEPT ![h] = LoopTop(cbRunning, "read")]
    /\ UNCHANGED <<oldVars, notClip, clockVars, os_clipboard, last_content, cbRunning,
                   monitor_handle, cbStartPc, cbStopPc, cbRead, cbCopies, cbAttempts>>

\* stop(): "*self.is_running.write().await = false;"
ClipStopSet ==
    /\ cbStopPc = "idle"
    /\ \A h \in Starters : cbStartPc[h] \in {"idle", "returned"}
    /\ cbRunning' = FALSE
    /\ cbStopPc' = "abort"
    /\ UNCHANGED <<oldVars, notClip, clockVars, os_clipboard, last_content,
                   monitor_handle, cbStartPc, cbPc, cbRead, cbCopies, cbAttempts>>

\* "if let Some(handle) = self.monitor_handle.write().await.take()
\*  { handle.abort(); }": the task of the stored handle ends at its await
ClipStopAbort ==
    /\ cbStopPc = "abort"
    /\ monitor_handle' = 0
    /\ cbPc' = [h \in Starters |->
                  IF h = monitor_handle /\ cbPc[h] # "none" THEN "done" ELSE cbPc[h]]
    /\ cbStopPc' = "returned"
    /\ UNCHANGED <<oldVars, notClip, clockVars, os_clipboard, last_content, cbRunning,
                   cbStartPc, cbRead, cbCopies, cbAttempts>>

NextClip ==
    \/ \E t \in ClipTexts : UserCopy(t)
    \/ \E h \in Starters : ClipStartCheck(h)
    \/ \E h \in Starters : ClipStartSet(h)
    \/ \E h \in Starters : ClipStartSpawn(h)
    \/ \E h \in Starters, ok \in BOOLEAN : ClipInit(h, ok)
    \/ \E h \in Starters, ok \in BOOLEAN : ClipGetText(h, ok)
    \/ \E h \in Starters : ClipCompare(h)
    \/ \E h \in Starters : ClipUpdate(h)
    \/ \E h \in Starters, ok \in BOOLEAN : ClipSend(h, ok)
    \/ \E h \in Starters : ClipWake(h)
    \/ ClipStopSet
    \/ ClipStopAbort

\* ================= the guards of a batching service (SpecLock):
\* ================= keylogger.rs, activity_tracker.rs
\* src/agent-rust/src/services/keylogger.rs:25-33 (struct Keylogger: current_stroke, buffer,
\*   buffer_size; activity_tracker.rs:102-110: current_activity, activity_buffer)
Locks == {"current", "buffer", "buffer_size"}

\* src/agent-rust/src/services/activity_tracker.rs:140-204 (the track / key processing task and
\*   the flush task of each start(), and stop())
LockTasks == [kind : {"work", "timer"}, h : Starters] \cup {[kind |-> "stop", h |-> 0]}

\* The guards Keylogger's functions take, in their order; a temporary guard
\* is released at the end of its statement, a bound one at the end of its
\* block or at its drop().  process_key_event (the key is not empty):
\* buffer_size.read() at :156, current_stroke.write() at :157, the push at
\* :173 when a stroke is saved, buffer.read() in the condition at :190,
\* current released at :191 or at the end.  flush_buffer: current_stroke
\* .write() at :204 with the push at :207 when there is a stroke, released
\* at :210; buffer.write() for the drain at :213.
KeyloggerLockPaths(kind) ==
    LET W(l) == [op |-> "acquire", lock |-> l, mode |-> "write"]
        R(l) == [op |-> "acquire", lock |-> l, mode |-> "read"]
        Rel(l) == [op |-> "release", lock |-> l, mode |-> "any"]
        push == <<W("buffer"), Rel("buffer")>>
    IN IF kind = "work"
       THEN {<<R("buffer_size"), Rel("buffer_size"), W("current")>> \o p
               \o <<R("buffer"), Rel("buffer"), Rel("current")>> : p \in {<<>>, push}}
       ELSE {<<W("current")>> \o p \o <<Rel("current"), W("buffer"), Rel("buffer")>> :
               p \in {<<>>, push}}

\* The guards ActivityTracker's functions take.  track_active_window:
\* current_activity.write() at :213, the push at :237 when an entry is
\* committed, current released at the return.  commit_current_activity:
\* the same at :260 and :276.  flush_buffer: activity_buffer.write() at
\* :287, held to the return, across the send; it takes no other guard.
\* stop() calls commit_current_activity and then flush_buffer.
\* (a bug: flush_buffer commits the current activity while it holds the buffer)
TrackerLockPathsFlushCommits(kind) ==
    LET W(l) == [op |-> "acquire", lock |-> l, mode |-> "write"]
        Rel(l) == [op |-> "release", lock |-> l, mode |-> "any"]
        push == <<W("buffer"), Rel("buffer")>>
        track == {<<W("current")>> \o p \o <<Rel("current")>> : p \in {<<>>, push}}
        flush == {<<W("buffer"), W("current"), Rel("current"), Rel("buffer")>>}
    IN IF kind = "work" THEN track
       ELSE IF kind = "timer" THEN flush
       ELSE track \cup flush
TrackerLockPaths(kind) ==
    LET W(l) == [op |-> "acquire", lock |-> l, mode |-> "write"]
        Rel(l) == [op |-> "release", lock |-> l, mode |-> "any"]
        push == <<W("buffer"), Rel("buffer")>>
        track == {<<W("current")>> \o p \o <<Rel("current")>> : p \in {<<>>, push}}
        commit == track
        flush == {<<W("buffer"), Rel("buffer")>>}
    IN IF kind = "work" THEN track
       ELSE IF kind = "timer" THEN flush
       ELSE commit \cup flush

\* the service after new(): no guard is held
InitLock ==
    /\ lkSvc \in BatchingServices
    /\ lkHeld = [l \in Locks |-> {}]
    /\ lkPath = [t \in LockTasks |-> <<>>]
    /\ lkPos = [t \in LockTasks |-> 0]

LockIdle ==
    /\ lkSvc = ActivityTrackerSvc
    /\ lkHeld = [l \in Locks |-> {}]
    /\ lkPath = [t \in LockTasks |-> <<>>]
    /\ lkPos = [t \in LockTasks |-> 0]

\* a task calls one of its functions, on one of the paths through it
LockCall(t, path) ==
    /\ lkPos[t] = 0
    /\ path \in (IF lkSvc = KeyloggerSvc THEN KeyloggerLockPaths(t.kind)
                 ELSE TrackerLockPaths(t.kind))
    /\ lkPath' = [lkPath EXCEPT ![t] = path]
    /\ lkPos' = [lkPos EXCEPT ![t] = 1]
    /\ UNCHANGED <<oldVars, notLock, lkSvc, lkHeld>>

\* tokio::sync::RwLock: write() is given when no guard is held, read() when
\* no write guard is held.  t waits at an acquire that cannot be given.
LockWaits(t) ==
    /\ lkPos[t] > 0
    /\ LET o == lkPath[t][lkPos[t]] IN
       /\ o.op = "acquire"
       /\ IF o.mode = "write" THEN lkHeld[o.lock] # {}
          ELSE \E g \in lkHeld[o.lock] : g.mode = "write"

\* ".write().await" / ".read().await" returns the guard
LockAcquire(t) ==
    /\ lkPos[t] > 0
    /\ lkPath[t][lkPos[t]].op = "acquire"
    /\ ~LockWaits(t)
    /\ LET o == lkPath[t][lkPos[t]] IN
       lkHeld' = [lkHeld EXCEPT ![o.lock] = @ \cup {[task |-> t, mode |-> o.mode]}]
    /\ lkPos' = [lkPos EXCEPT ![t] = IF @ = Len(lkPath[t]) THEN 0 ELSE @ + 1]
    /\ UNCHANGED <<oldVars, notLock, lkSvc, lkPath>>

\* the guard is dropped
LockRelease(t) ==
    /\ lkPos[t] > 0
    /\ lkPath[t][lkPos[t]].op = "release"
    /\ LET o == lkPath[t][lkPos[t]] IN
       lkHeld' = [lkHeld EXCEPT ![o.lock] = {g \in @ : g.task # t}]
    /\ lkPos' = [lkPos EXCEPT ![t] = IF @ = Len(lkPath[t]) THEN 0 ELSE @ + 1]
    /\ UNCHANGED <<oldVars, notLock, lkSvc, lkPath>>

NextLock ==
    \/ \E t \in LockTasks :
         \E path \in KeyloggerLockPaths(t.kind) \cup TrackerLockPaths(t.kind) :
            LockCall(t, path)
    \/ \E t \in LockTasks : LockAcquire(t)
    \/ \E t \in LockTasks : LockRelease(t)

\* the specifications after SpecStream at rest
TailIdle ==
    /\ ClockIdle
    /\ InitClip
    /\ LockIdle

\* the specifications before SpecProd keep its variables and those of the
\* later specifications at rest
MoreIdle ==
    /\ TailIdle
    /\ ProdIdle
    /\ InitKl
    /\ SerIdle
    /\ PwIdle
    /\ InitStream

\* ---------------------------------------------------------- specifications
\* a batching producer, run_agent at rest
InitSpec ==
    /\ InitBatch
    /\ InitAgent
    /\ InitCmd
    /\ FileIdle
    /\ TermIdle
    /\ LifeIdle
    /\ CfgIdle
    /\ MoreIdle

\* run_agent, the producer of Spec at rest
InitSpecAgent ==
    /\ InitAgent
    /\ BatchIdle
    /\ InitCmd
    /\ FileIdle
    /\ TermIdle
    /\ LifeIdle
    /\ CfgIdle
    /\ MoreIdle

\* the command handler under run_agent's connect and registration
InitSpecCmd ==
    /\ InitAgent
    /\ BatchIdle
    /\ InitCmd
    /\ FileIdle
    /\ TermIdle
    /\ LifeIdle
    /\ CfgIdle
    /\ MoreIdle

Spec == InitSpec /\ [][NextBatch]_vars

\* a batching producer whose stop() is called up to MaxStops times
InitSpecLife ==
    /\ InitBatch
    /\ InitAgent
    /\ InitCmd
    /\ FileIdle
    /\ TermIdle
    /\ LifeIdle
    /\ CfgIdle
    /\ MoreIdle

SpecLife == InitSpecLife /\ [][NextLife]_vars

SpecAgent == InitSpecAgent /\ [][NextAgent]_vars

\* run_agent on its thread and main() on the main thread
InitSpecMain ==
    /\ InitAgent
    /\ BatchIdle
    /\ InitCmd
    /\ FileIdle
    /\ TermIdle
    /\ LifeIdle
    /\ CfgIdle
    /\ MoreIdle

SpecMain == InitSpecMain /\ [][NextMain]_vars

SpecCmd == InitSpecCmd /\ [][NextCmd]_vars

\* the file transfer handlers, each on a request of RequestInputs
InitSpecFile ==
    /\ InitAgent
    /\ BatchIdle
    /\ InitCmd
    /\ InitFile
    /\ TermIdle
    /\ LifeIdle
    /\ CfgIdle
    /\ MoreIdle

SpecFile == InitSpecFile /\ [][NextFile]_vars

\* the terminal service, the tasks of its start-terminal events spawned
InitSpecTerm ==
    /\ InitAgent
    /\ BatchIdle
    /\ InitCmd
    /\ FileIdle
    /\ InitTerm
    /\ LifeIdle
    /\ CfgIdle
    /\ MoreIdle

SpecTerm == InitSpecTerm /\ [][NextTerm]_vars

\* Config::update_from_server on the configurations of StartConfigs
InitSpecCfg ==
    /\ InitAgent
    /\ BatchIdle
    /\ InitCmd
    /\ FileIdle
    /\ TermIdle
    /\ LifeIdle
    /\ InitCfg
    /\ MoreIdle

SpecCfg == InitSpecCfg /\ [][NextCfg]_vars


\* a periodic producer with one caller of start() and stop()
InitSpecProd ==
    /\ TailIdle
    /\ InitAgent
    /\ BatchIdle
    /\ InitCmd
    /\ FileIdle
    /\ TermIdle
    /\ LifeIdle
    /\ CfgIdle
    /\ InitProd
    /\ InitKl
    /\ SerIdle
    /\ PwIdle
    /\ InitStream

SpecProd == InitSpecProd /\ [][NextProd]_vars


\* the running keylogger under key presses, up to the first batch of its
\* flush timer
InitSpecKeys ==
    /\ TailIdle
    /\ KeysStarted
    /\ InitAgent
    /\ InitCmd
    /\ FileIdle
    /\ TermIdle
    /\ LifeIdle
    /\ CfgIdle
    /\ MoreIdle

SpecKeys == InitSpecKeys /\ [][NextKeys]_vars


\* the keylogger with one caller of start() and stop()
InitSpecKl ==
    /\ TailIdle
    /\ InitAgent
    /\ BatchIdle
    /\ InitCmd
    /\ FileIdle
    /\ TermIdle
    /\ LifeIdle
    /\ CfgIdle
    /\ ProdIdle
    /\ InitKl
    /\ SerIdle
    /\ PwIdle
    /\ InitStream

SpecKl == InitSpecKl /\ [][NextKl]_vars


\* a Config of SerConfigs serialized to JSON and parsed back
InitSpecSer ==
    /\ TailIdle
    /\ InitAgent
    /\ BatchIdle
    /\ InitCmd
    /\ FileIdle
    /\ TermIdle
    /\ LifeIdle
    /\ InitSer
    /\ ProdIdle
    /\ InitKl
    /\ PwIdle
    /\ InitStream

SpecSer == InitSpecSer /\ [][NextSer]_vars


\* constant_time_compare and verify_password on the inputs of InitPw
InitSpecPw ==
    /\ TailIdle
    /\ InitAgent
    /\ BatchIdle
    /\ InitCmd
    /\ FileIdle
    /\ TermIdle
    /\ LifeIdle
    /\ CfgIdle
    /\ ProdIdle
    /\ InitKl
    /\ SerIdle
    /\ InitPw
    /\ InitStream

SpecPw == InitSpecPw /\ [][NextPw]_vars


\* the screen stream under start-screen-stream and stop-screen-stream events
InitSpecStream ==
    /\ TailIdle
    /\ InitAgent
    /\ BatchIdle
    /\ InitCmd
    /\ FileIdle
    /\ TermIdle
    /\ LifeIdle
    /\ CfgIdle
    /\ ProdIdle
    /\ InitKl
    /\ SerIdle
    /\ PwIdle
    /\ InitStream

SpecStream == InitSpecStream /\ [][NextStream]_vars

\* the activity tracker's entries under any readings of the clock
InitSpecClock ==
    /\ InitAgent
    /\ BatchIdle
    /\ InitCmd
    /\ FileIdle
    /\ TermIdle
    /\ LifeIdle
    /\ CfgIdle
    /\ ProdIdle
    /\ InitKl
    /\ SerIdle
    /\ PwIdle
    /\ InitStream
    /\ InitClock
    /\ InitClip
    /\ LockIdle

SpecClock == InitSpecClock /\ [][NextClock]_vars

\* the clipboard monitor under its start() callers, the user's copies and stop()
InitSpecClip ==
    /\ InitAgent
    /\ BatchIdle
    /\ InitCmd
    /\ FileIdle
    /\ TermIdle
    /\ LifeIdle
    /\ CfgIdle
    /\ ProdIdle
    /\ InitKl
    /\ SerIdle
    /\ PwIdle
    /\ InitStream
    /\ ClockIdle
    /\ InitClip
    /\ LockIdle

SpecClip == InitSpecClip /\ [][NextClip]_vars

\* the guards of a batching service under its tasks and stop()
InitSpecLock ==
    /\ InitAgent
    /\ BatchIdle
    /\ InitCmd
    /\ FileIdle
    /\ TermIdle
    /\ LifeIdle
    /\ CfgIdle
    /\ ProdIdle
    /\ InitKl
    /\ SerIdle
    /\ PwIdle
    /\ InitStream
    /\ ClockIdle
    /\ InitClip
    /\ InitLock

SpecLock == InitSpecLock /\ [][NextLock]_vars


\* ================================================================ claims

\* C1: across appends, timer flushes and the stop-time flush, every record
\* appended to the buffer is handed to the socket in at most one batch: no
\* record appears twice among the entries handed to socket.send.
C1_NoRecordInTwoBatches ==
    \A i, j \in 1..Len(sent) : i # j => RecId(sent[i]) # RecId(sent[j])

\* two batches or more have been handed over, the stop-time one included
C1_Witness ==
    /\ nBatches >= 2
    /\ stopDrains = 1
    /\ stopPc = "returned"
    /\ Len(sent) >= 3

\* C2: a flush whose send fails discards its batch: the step on which the
\* send returns Err leaves the buffer as it is and the flusher goes on (the
\* timer task round its loop, stop() to its aborts); every drain leaves the
\* buffer empty; and no record of the buffer has been drained before, so
\* the buffer holds only records appended since the latest drain.
C2_FailedFlushDiscards ==
    [][ /\ sendErrs' # sendErrs =>
             /\ buffer' = buffer
             /\ \A h \in Starters :
                  flushPc'[h] # flushPc[h] => flushPc'[h] \in {"sleep", "done"}
             /\ stopPc' # stopPc => stopPc' = "abort"
        /\ nBatches' # nBatches => buffer' = <<>>
        /\ RecIds(buffer') \cap RecIds(sent') = {}
      ]_vars

\* two sends have failed and the buffer holds records appended since
C2_Witness ==
    /\ sendErrs >= 2
    /\ buffer # <<>>
    /\ ~connected

\* C3: no flusher holds the write guard of the buffer while its send is in
\* progress.
C3_NoBufferLockAcrossSend ==
    /\ \A h \in Starters : flushPc[h] = "sending" => bufLock # FlushTask(h)
    /\ stopPc = "sending" => bufLock # Stopper

\* C4: stop() called while a flush timer task is mid-cycle drains the
\* buffer exactly once, and the buffer is empty on the step stop() returns.
C4_StopLeavesBufferEmpty ==
    [][ (stopMidCycle /\ stopPc # "returned" /\ stopPc' = "returned")
            => (stopDrains' = 1 /\ buffer' = <<>>) ]_vars

\* C5: the flush timer of the ActivityTracker fires on a buffer of 5
\* entries: one batch is handed to the socket, it holds the 5 entries in
\* append order, the buffer is empty; and while connected its send returns
\* Ok with the buffer still empty.
C5_FiveRecordsOneBatch ==
    [][ \A h \in Starters :
          /\ ( /\ IsAT
               /\ Len(buffer) = 5
               /\ flushPc[h] = "sleep"
               /\ flushPc'[h] # "sleep"
               /\ stopPc' = stopPc )
             => /\ flushPc'[h] = "sending"
                /\ flushBatch'[h] = buffer
                /\ sent' = sent \o buffer
                /\ nBatches' = nBatches + 1
                /\ buffer' = <<>>
          /\ ( /\ IsAT
               /\ flushPc[h] = "sending"
               /\ Len(flushBatch[h]) = 5
               /\ flushPc'[h] # "sending"
               /\ stopPc' = stopPc
               /\ connected )
             => /\ sendErrs' = sendErrs
                /\ nBatches' = nBatches
                /\ buffer' = <<>>
      ]_vars

\* the one batch of 5 entries is on its way and the buffer is empty
C5_Witness ==
    /\ IsAT
    /\ connected
    /\ nBatches = 1
    /\ buffer = <<>>
    /\ \E h \in Starters : flushPc[h] = "sending" /\ Len(flushBatch[h]) = 5

\* C6: start() called by the handler task of a later auth-success event on
\* a service whose flag is still set returns at its check: the step spawns
\* no task, stores no handle, leaves the flags alone, and the handler goes
\* on to the next service.
C6_NoSecondStart ==
    [][ \A t \in Starters :
          ( /\ authPc[t] = "check"
            /\ svcRunning[Services[authIdx[t]]]
            /\ <<authPc'[t], authIdx'[t]>> # <<authPc[t], authIdx[t]>> )
          => /\ tasks' = tasks
             /\ handle' = handle
             /\ svcRunning' = svcRunning
             /\ authPc'[t] # "spawn"
      ]_vars

\* both handler tasks are through and every service runs one set of tasks
C6_Witness ==
    /\ \A t \in Starters : authPc[t] = "done"
    /\ \A s \in MonitoringServices : svcRunning[s] /\ tasks[s] = 1
    /\ lastConnect = "ok"
    /\ mainPc \in SupervisorPcs

\* C7: a step of the supervisor loop (its sleep, its is_connected check, its
\* connect(), Ok or Err) and a loss of the connection leave the flag, the
\* handle and the tasks of every service, what the services produced and
\* the handler tasks as they are.
C7_ReconnectLeavesServices ==
    [][ ( \/ /\ mainPc \in SupervisorPcs
             /\ mainPc' \in SupervisorPcs
             /\ mainPc' # mainPc
          \/ /\ is_connected
             /\ ~is_connected'
             /\ mainPc' = mainPc )
        => UNCHANGED <<svcRunning, handle, tasks, produced, is_monitoring,
                       authPc, authIdx, batchVars>>
      ]_vars

\* a reconnect has failed while every service runs and has produced
C7_Witness ==
    /\ mainPc = "loop"
    /\ lastConnect = "err"
    /\ produced > 0
    /\ \A s \in MonitoringServices : svcRunning[s] /\ tasks[s] = 1

\* C8: a connect() that fails is not fatal: while no exit is requested,
\* run_agent is in its supervisor loop after a failed connect().
C8_ConnectFailureNotFatal ==
    (lastConnect = "err" /\ ~exit_flag) => mainPc \in SupervisorPcs

\* C9: with no exit requested the loop goes from its top to the sleep and
\* from the sleep to the check; a check that finds the socket not connected
\* goes to connect(); connect(), Ok or Err, goes back to the loop top.
C9_SupervisorRetries ==
    [][ /\ (mainPc = "loop" /\ ~exit_flag /\ mainPc' # mainPc) => mainPc' = "sleep"
        /\ (mainPc = "sleep" /\ mainPc' # mainPc) => mainPc' = "check"
        /\ (mainPc = "check" /\ ~is_connected /\ mainPc' # mainPc)
              => mainPc' = "reconnect"
        /\ (mainPc = "reconnect" /\ mainPc' # mainPc) => mainPc' = "loop"
      ]_vars

\* a reconnect has failed and the next check has led to connect() again
C9_Witness ==
    /\ mainPc = "reconnect"
    /\ lastConnect = "err"
    /\ ~is_connected
    /\ ~exit_flag

C11_NoCommandBeforeAuth ==
    \A c \in CmdIds :
        (c \in osActions \/ responses[c] # <<>>) => auth_received

\* C12: the handler of a command event calls send_command_response exactly
\* once, with the id of its command and the value of its match: no call
\* before the task is through, one call once it is; a LOCK whose spawn()
\* returned Ok is answered (true, "Screen locked", no error).
C12_OneResponsePerCommand ==
    \A c \in CmdIds :
        /\ cmd[c].pc \in {"match", "output", "respond"} => responses[c] = <<>>
        /\ cmd[c].pc = "done" =>
             /\ Len(responses[c]) = 1
             /\ responses[c][1].id = c
             /\ responses[c][1] =
                  Response(c, CommandResult(cmd[c].command, cmd[c].arg, cmd[c].os))
             /\ (cmd[c].command = "LOCK" /\ cmd[c].os = "ok") =>
                  responses[c][1] = [id |-> c, success |-> TRUE,
                                     output |-> Some("Screen locked"), error |-> None]
             /\ cmd[c].command \notin KnownCommands =>
                  ~responses[c][1].success /\ responses[c][1].error # None

\* a LOCK that succeeded and a command that failed have both been answered
C12_Witness ==
    /\ cmd[1].pc = "done" /\ cmd[1].command = "LOCK" /\ cmd[1].os = "ok"
    /\ cmd[2].pc = "done" /\ ~responses[2][1].success
    /\ Len(responses[1]) = 1 /\ Len(responses[2]) = 1

\* C14: when the process has ended after the tray's Exit, run_agent is
\* through its shutdown (every stop() and the disconnect), unless no
\* batching service was running that a stop() had to drain.
C14_ShutdownBeforeProcessEnds ==
    process = "exited" =>
        \/ mainPc = "done"
        \/ \A s \in BatchingServices :
             ~svcRunning[s] /\ tasks[s] = 0 /\ handle[s] = None

\* C15: on the step stop_all returns, every shell child that has been
\* spawned has had kill() called on it, and the session map is empty.
C15_StopAllKillsEveryChild ==
    [][ (stopAllPc = "idle" /\ stopAllPc' = "returned") =>
          /\ \A k \in TermTasks : child'[k] # "alive"
          /\ \A i \in SessionIds : sessions'[i] = 0
      ]_vars

\* C16: once the shutdown has begun stopping services, connect() is not
\* called again, and a service the shutdown has stopped is not started
\* again: no step sets its flag, spawns a task for it or stores a handle.
C16_ShutdownIsTerminal ==
    [][ (mainPc \in {"stop", "disconnect", "done"}) =>
          /\ lastConnect' = lastConnect
          /\ mainPc' # "reconnect"
          /\ (\A s \in MonitoringServices :
                ( \/ mainPc \in {"disconnect", "done"}
                  \/ \E i \in 1..(stopIdx - 1) : ShutdownOrder[i] = s )
                => /\ svcRunning'[s] => svcRunning[s]
                   /\ tasks'[s] <= tasks[s]
                   /\ handle'[s] # None => handle[s] # None)
      ]_vars

\* C17: the connection state run_agent reports (its StatusUpdate) changes
\* only along the edges: Connected is reported only from Connecting, and
\* Disconnected (the connection was lost) only from Connected or while it
\* lasts.
C17_ConnectedOnlyAfterConnecting ==
    [][ /\ (status' = "Connected" /\ status # "Connected") => status = "Connecting"
        /\ (status' = "Disconnected" /\ status # "Disconnected") => status = "Connected"
      ]_vars

\* C18: blocking work runs on no async task: no task spawned by the command
\* callback waits in output() for a process to exit.
C18_NoBlockingOnAsyncTask ==
    \A c \in CmdIds : cmd[c].pc # "output"

\* C13: every file-transfer and list-directory request is answered: a
\* handler that is through has handed the socket at least one message that
\* carries the request's id or path.
C13_EveryRequestAnswered ==
    \A r \in ReqIds :
        req[r].pc = "done" =>
            \E i \in 1..Len(outbox[r]) : outbox[r][i].ref = r

\* C19: start() and stop() are idempotent and is_active() follows them.
\* start() on a running service returns at its check and changes nothing
\* else; stop() on a stopped service hands no batch to the socket; the flag
\* is_active() reads is set true by a start() only and false by a stop()
\* only.
C19_StartStopIdempotent ==
    [][ /\ \A h \in Starters :
             (startPc[h] = "idle" /\ is_running /\ startPc'[h] # "idle")
                => /\ startPc'[h] = "returned"
                   /\ UNCHANGED <<is_running, taskPc, flushPc, track_handle,
                                  flush_handle, listeners, buffer, current, sent>>
        /\ (stopOnStopped /\ stopPc = "drain") => stopPc' # "sending"
        /\ (~is_running /\ is_running') => \E h \in Starters : startPc[h] = "set"
        /\ (is_running /\ ~is_running') => stopPc \in {"idle", "returned"}
      ]_vars

\* C20: after update_from_server each of screenshot_interval,
\* activity_log_interval and keystroke_buffer_size holds the server's value
\* if the server sent one and its value of before otherwise; every other
\* field holds its value of before; a server config with no field present
\* leaves the Config as it was.
C20_UpdateOverwritesPresentFields ==
    /\ \A f \in {"screenshot_interval", "activity_log_interval", "keystroke_buffer_size"} :
         config[f] = IF server_config[f] # None THEN server_config[f][1] ELSE cfgPrev[f]
    /\ \A f \in OtherFields : config[f] = cfgPrev[f]
    /\ server_config = NoServerConfig => config = cfgPrev
    /\ DOMAIN config = DOMAIN cfgPrev

\* an update with one field present has changed that field of a Config that
\* had been changed before, and has left the other two alone
C20_Witness ==
    /\ server_config.screenshot_interval = Some(1)
    /\ server_config.activity_log_interval = None
    /\ server_config.keystroke_buffer_size = None
    /\ cfgPrev.screenshot_interval = DefaultScreenshotInterval + 1
    /\ cfgPrev.activity_log_interval = 1
    /\ config.screenshot_interval = 1
    /\ config.activity_log_interval = 1
    /\ config.server_url = "https://server"

\* C21: a turn of the loop of a periodic producer (process monitor, periodic
\* screen capture, clipboard) that meets a failed send or a failed OS query
\* leaves the task in its loop, at the sleep of the normal interval, with
\* the running flag and the stored handle as they were; the sleep ends at
\* the top of the loop, where the next turn starts while the flag is set.
C21_ProducerErrorOnlyLogged ==
    [][ /\ (pCycles' = pCycles + 1 /\ pLast' \in CycleFailures)
           => /\ pPc' = "sleep"
              /\ pSleep' = PollInterval(pSvc)
              /\ pRunning' = pRunning
              /\ pHandle' = pHandle
        /\ (pPc = "sleep" /\ pPc' # "sleep") => pPc' \in {"top", "aborted"}
        /\ (pPc = "top" /\ pPc' # "top" /\ pRunning) => pPc' \in {"work", "aborted"}
      ]_vars
\* a turn that failed is behind the task and its next turn is under way
C21_Witness ==
    /\ pLast \in CycleFailures
    /\ pPc = "work"
    /\ pCycles = 2
    /\ pRunning
    /\ pSent = 0

\* C22: the keystroke buffer is flushed when it reaches the threshold that
\* process_key_event checks: the key processing task never leaves the buffer
\* with that many entries for the flush timer to find.
C22_FlushAtThreshold ==
    IsKL => Len(buffer) < FlushThreshold

\* C23: a keyboard listener thread that was alive when a stop() of the
\* keylogger returned is gone once the next key has been pressed.
C23_ListenerExitsOnNextKey ==
    \A g \in kSeenKey : g \notin kListeners

\* C28: over start(), stop() and start() again, made one after the other,
\* each key press is in the keystroke data at most once.
C28_KeyRecordedOnce ==
    \A i \in 1..kPressed : Recorded(i) <= 1

\* C24: a Config serialized to JSON and parsed back is a Config with the
\* same value in every field, screenshot_interval among them.
C24_ConfigRoundTrip ==
    parsed # None =>
        /\ parsed[1].ok
        /\ parsed[1].v = config
        /\ parsed[1].v.screenshot_interval = config.screenshot_interval
\* a Config with a changed interval, a password hash and a schedule has
\* made the round trip
C24_Witness ==
    /\ parsed # None
    /\ config.screenshot_interval = 1
    /\ config.admin_password_hash = Some("hash")
    /\ config.schedule = Some(ASchedule)
    /\ json[1]["screenshotInterval"] = JOf(1)
    /\ parsed[1].ok
    /\ parsed[1].v.screenshot_interval = 1

\* C25: constant_time_compare(a, b) is true exactly when a and b are the
\* same bytes; strings of different lengths compare false.
C25_CompareIsEquality ==
    (pwCall = "constant_time_compare" /\ pwRes # None) =>
        /\ pwRes[1] <=> (pwA = pwB)
        /\ Len(pwA) # Len(pwB) => ~pwRes[1]
\* two strings of the same length that differ in their last byte only, in
\* one bit, have been compared
C25_Witness ==
    /\ pwCall = "constant_time_compare"
    /\ pwRes = Some(FALSE)
    /\ pwA = <<97, 225, 97>>
    /\ pwB = <<97, 225, 225>>

\* C26: verify_password(p, h) is true exactly when h is hash_password(p).
C26_VerifyIsHashEquality ==
    (pwCall = "verify_password" /\ pwRes # None) =>
        /\ pwRes[1] <=> (pwB = hash_password(pwA))
        /\ pwB # hash_password(pwA) => ~pwRes[1]
\* a password has been verified against its own hash
C26_Witness ==
    /\ pwCall = "verify_password"
    /\ pwRes = Some(TRUE)
    /\ pwA = <<116, 101, 115, 116>>
    /\ Len(pwB) = 2 * HASH_LENGTH

\* C27: start() calls on the same service that overlap in time, made by the
\* tasks of two auth-success events, leave one set of background tasks: no
\* monitoring service has two sets of tasks spawned and not aborted.
C27_OverlappingStartsOneTaskSet ==
    \A s \in MonitoringServices : tasks[s] <= 1

\* C29: at most one screen-stream task is alive per ScreenCapture: once the
\* handler tasks of the start and stop events received have all returned
\* and streaming is on, one stream task is sending frames and no earlier one.
C29_OneStreamTask ==
    ((\A h \in StreamIds : sPc[h] \in {"none", "done"}) /\ is_streaming)
        => Cardinality({t \in StreamIds : StreamAlive(t)}) <= 1

\* C30: when a stop-screen-stream event is the latest stream event received
\* and the handler tasks of all events have returned, streaming is off: the
\* stop is not overtaken by a start event that came before it.
C30_StopNotOvertaken ==
    (/\ sEvents # <<>>
     /\ sEvents[Len(sEvents)] = "stop"
     /\ \A h \in StreamIds : sPc[h] \in {"none", "done"})
        => /\ ~is_streaming
           /\ \A t \in StreamIds : sTask[t] # "frame"

\* C31: every ActivityLogEntry put in the activity buffer has end_time >=
\* start_time, duration = end_time - start_time and duration > 1000 ms, for
\* any sequence of readings of the system clock; an activity that lasted
\* 1000 ms or less is never recorded.
C31_EntryTimesConsistent ==
    \A i \in 1..Len(activity_buffer) :
        LET e == activity_buffer[i] IN
        /\ e.end_time >= e.start_time
        /\ ~e.duration.wrapped
        /\ e.duration.v = e.end_time - e.start_time
        /\ e.duration.v > MinDurationMs

\* C32: the clipboard monitor sends a clipboard text only when it is
\* non-empty and differs from the last recorded content, and the recorded
\* content is updated before the send, so that a text is sent at most once
\* while the clipboard stays unchanged: at most one send attempt per change.
C32_OneSendAttemptPerChange ==
    /\ \A h \in Starters : cbPc[h] = "send" => cbRead[h] # "" /\ last_content # ""
    /\ cbAttempts <= 1

\* C33: for every monitoring service, whenever its running flag (is_active)
\* is true its background task is alive; a task that ends on its own does
\* not leave the service marked running.  (Read between the calls of
\* start() and stop(), which set the flag before they spawn or abort.)
C33_RunningImpliesTaskAlive ==
    (pCall = "idle" /\ pRunning) => pPc \in {"init", "top", "work", "sleep"}

\* C34: no interleaving of record processing, timer flush and stop() in a
\* batching service deadlocks.  No task asks for the guard of the current
\* item while it holds a guard of the buffer (the order is always current,
\* then buffer), and there is no set of tasks that all wait for a guard
\* held inside the set.
C34_NoLockDeadlock ==
    /\ \A t \in LockTasks :
         (\E g \in lkHeld["buffer"] : g.task = t)
            => ~(/\ lkPos[t] > 0
                 /\ lkPath[t][lkPos[t]].op = "acquire"
                 /\ lkPath[t][lkPos[t]].lock = "current")
    /\ ~\E S \in (SUBSET LockTasks) \ {{}} :
         \A t \in S :
            /\ LockWaits(t)
            /\ \A g \in lkHeld[lkPath[t][lkPos[t]].lock] : g.task \in S

\* a task that holds the guard of the current item waits for the buffer,
\* whose guard another task holds
C34_Witness ==
    \E t \in LockTasks :
        /\ LockWaits(t)
        /\ lkPath[t][lkPos[t]].lock = "buffer"
        /\ \E g \in lkHeld["current"] : g.task = t
        /\ \E g \in lkHeld["buffer"] : g.task # t

====
